---- MODULE Spec2Model ----
(***************************************************************************)
(* The v0 compatibility layer of the native protocol                       *)
(* (src/modules/module-protocol-native/v0/protocol-native.c): the          *)
(* per-client type map filled by UpdateTypes messages, the identifier      *)
(* translation between the legacy (v0) and the current (v2) vocabulary,    *)
(* and the two POD tree walkers remap_from_v2 (legacy -> current) and      *)
(* remap_to_v2 (current -> legacy).                                        *)
(*                                                                         *)
(* Naming: the functions of the source whose names end in _from_v2 read    *)
(* data that came FROM the legacy peer (they produce current values), the  *)
(* functions whose names end in _to_v2 produce data that goes TO the       *)
(* legacy peer.  The definitions below keep the names of the source.       *)
(*                                                                         *)
(* PODs are modelled structurally.  A POD is a record with a field tag:    *)
(*   [tag |-> "Id", v]   [tag |-> "Int", v]                                *)
(*   [tag |-> "Struct", ch]              ch: the sequence of children      *)
(*   [tag |-> "Object", type, id, ch]    the two body words, the children  *)
(*   [tag |-> "Choice", type, flags, child, csize, vals]                   *)
(* The Choice record is both the current spa_pod_choice (body.type is the  *)
(* choice type) and the legacy spa_pod_prop_body0 (the same word is the    *)
(* key): the two layouts overlay word for word, and the source reads one   *)
(* as the other.  child/csize are the type and size of the value header,   *)
(* vals the values that follow it (the first is the default).              *)
(* What spa_pod_builder_prop writes (two bare words, no POD header) is     *)
(* the item [tag |-> "PropHdr", key, flags].                               *)
(*                                                                         *)
(* Further parts of the repository are modelled by specifications of       *)
(* their own over the same initial state: the POD test program (SpecPod),  *)
(* client proxies of src/pipewire/proxy.c (SpecProxy), the core events     *)
(* sent to a legacy client (SpecInfo), and client devices with the         *)
(* factory that makes them (SpecDevice).                                   *)
(***************************************************************************)
EXTENDS Integers, Sequences, FiniteSets, TLC

VARIABLES types, initialised, last
\* The object the POD test program builds and the result of its lookup.
VARIABLES obj, found
\* The remote of a client, its proxies, and the proxy call that ran last.
VARIABLES remote, proxies, call
\* The connection to a legacy client: its sequence counter and the events
\* sent on it.
VARIABLES conn
\* A client device (struct impl with its device and its resource).
VARIABLES impl
\* The create_object call of the client-device factory that ran last.
VARIABLES factory

protocol_vars == <<types, initialised, last>>
pod_vars == <<obj, found>>
proxy_vars == <<remote, proxies, call>>
info_vars == <<conn>>
device_vars == <<impl>>
factory_vars == <<factory>>
rest_vars == <<info_vars, device_vars, factory_vars>>
other_vars == <<pod_vars, proxy_vars, rest_vars>>
vars == <<protocol_vars, other_vars>>

(***************************************************************************)
(* Program constants                                                       *)
(***************************************************************************)
\* SPA_ID_INVALID is (uint32_t)0xffffffff.  It is written -1, the same 32 bits
\* read as a signed integer (what the source's `int type_id` holds); where the
\* source compares it as unsigned the model says so (IsRow).
SPA_ID_INVALID == -1
EINVAL == 22

SPA_POD_PROP0_RANGE_NONE == 0
SPA_POD_PROP0_RANGE_MIN_MAX == 1
SPA_POD_PROP0_RANGE_STEP == 2
SPA_POD_PROP0_RANGE_ENUM == 3
SPA_POD_PROP0_RANGE_FLAGS == 4
SPA_POD_PROP0_RANGE_MASK == 15
SPA_POD_PROP0_FLAG_UNSET == 16

SPA_CHOICE_None == 0
SPA_CHOICE_Range == 1
SPA_CHOICE_Step == 2
SPA_CHOICE_Enum == 3
SPA_CHOICE_Flags == 4

\* Identifiers of the current vocabulary used by the walkers.
SPA_TYPE_COMMAND_Node == 196610
SPA_TYPE_OBJECT_Props == 262146
SPA_TYPE_OBJECT_Format == 262147
SPA_FORMAT_mediaType == 1
SPA_FORMAT_mediaSubtype == 2
\* Further identifiers of the model's universe.  The source scopes every
\* identifier by a spa_type_info table; the model keeps one flat universe in
\* which the identifiers are pairwise distinct.
SPA_PARAM_EnumFormat == 3
SPA_MEDIA_TYPE_audio == 101
SPA_MEDIA_SUBTYPE_raw == 201
SPA_FORMAT_AUDIO_rate == 65539
SPA_NODE_COMMAND_Pause == 301
\* An identifier no table knows.
UnknownId == 999

\* A name pointer that is NULL.
NoName == "(null)"

(***************************************************************************)
(* The global type table (typemap.h): one row per legacy type, with its    *)
(* legacy string, its current name (NULL when it has none) and its current *)
(* identifier.  The row index (from 0) is the legacy slot of this side.    *)
(***************************************************************************)
type_map ==
  << [type |-> "Spa:Interface:TypeMap", name |-> NoName, id |-> 0],
     [type |-> "Spa:POD:Object:Param:Format", name |-> "Spa:Pod:Object:Param:Format",
      id |-> SPA_TYPE_OBJECT_Format],
     [type |-> "Spa:POD:Object:Param:Props", name |-> "Spa:Pod:Object:Param:Props",
      id |-> SPA_TYPE_OBJECT_Props],
     [type |-> "Spa:Enum:ParamId:EnumFormat", name |-> "Spa:Enum:ParamId:EnumFormat",
      id |-> SPA_PARAM_EnumFormat],
     [type |-> "Spa:Enum:MediaType:audio", name |-> "Spa:Enum:MediaType:audio",
      id |-> SPA_MEDIA_TYPE_audio],
     [type |-> "Spa:Enum:MediaSubtype:raw", name |-> "Spa:Enum:MediaSubtype:raw",
      id |-> SPA_MEDIA_SUBTYPE_raw],
     [type |-> "Spa:POD:Object:Param:Format:Audio:rate",
      name |-> "Spa:Pod:Object:Param:Format:Audio:rate", id |-> SPA_FORMAT_AUDIO_rate],
     [type |-> "Spa:POD:Object:Command:Node:Pause", name |-> "Spa:Pod:Object:Command:Node:Pause",
      id |-> SPA_NODE_COMMAND_Pause] >>

\* SPA_N_ELEMENTS(type_map)
N_ELEMENTS == Len(type_map)

\* type_map[i], rows counted from 0 as in the source.
Row(i) == type_map[i + 1]

\* !(index >= SPA_N_ELEMENTS(type_map)) for an unsigned 32-bit index.
IsRow(index) == index >= 0 /\ index < N_ELEMENTS

\* spa_debug_type_find_name: the name of a current identifier, NULL when the
\* type information has none.
spa_debug_type_find_name(type) ==
  CASE type = SPA_TYPE_OBJECT_Format -> "Spa:Pod:Object:Param:Format"
    [] type = SPA_TYPE_OBJECT_Props -> "Spa:Pod:Object:Param:Props"
    [] type = SPA_PARAM_EnumFormat -> "Spa:Enum:ParamId:EnumFormat"
    [] type = SPA_MEDIA_TYPE_audio -> "Spa:Enum:MediaType:audio"
    [] type = SPA_MEDIA_SUBTYPE_raw -> "Spa:Enum:MediaSubtype:raw"
    [] type = SPA_FORMAT_AUDIO_rate -> "Spa:Pod:Object:Param:Format:Audio:rate"
    [] type = SPA_NODE_COMMAND_Pause -> "Spa:Pod:Object:Command:Node:Pause"
    [] type = SPA_TYPE_COMMAND_Node -> "Spa:Pod:Object:Command:Node"
    [] type = SPA_FORMAT_mediaType -> "Spa:Pod:Object:Param:Format:mediaType"
    [] type = SPA_FORMAT_mediaSubtype -> "Spa:Pod:Object:Param:Format:mediaSubtype"
    [] OTHER -> NoName

(***************************************************************************)
(* The per-client map compat_v2->types: legacy slot of the peer -> row.    *)
(***************************************************************************)
\* pw_map_insert_at(map, id, data)
pw_map_insert_at(map, id, data) ==
  [s \in (DOMAIN map) \cup {id} |-> IF s = id THEN data ELSE map[s]]

\* pw_map_lookup(map, id) != NULL
pw_map_has_item(map, id) == id \in DOMAIN map

\* pw_map_lookup(map, id), for an id that has an item
pw_map_lookup(map, id) == map[id]

\* The map of a client that has announced nothing.
EmptyMap == [s \in {} |-> 0]

(***************************************************************************)
(* Identifier translation                                                  *)
(***************************************************************************)
\* pw_protocol_native0_find_type: the first row whose legacy string is `type`.
pw_protocol_native0_find_type(type) ==
  IF \E i \in 0..(N_ELEMENTS - 1) : Row(i).type = type
  THEN CHOOSE i \in 0..(N_ELEMENTS - 1) :
         /\ Row(i).type = type
         /\ \A j \in 0..(i - 1) : Row(j).type # type
  ELSE SPA_ID_INVALID

\* pw_protocol_native0_type_from_v2 that returns the stored row index
\* instead of the identifier of that row.
type_from_v2_index(map, type) ==
  IF ~pw_map_has_item(map, type)
  THEN SPA_ID_INVALID
  ELSE LET index == pw_map_lookup(map, type)
       IN IF ~IsRow(index) THEN SPA_ID_INVALID ELSE index

\* pw_protocol_native0_type_from_v2 that hands an unknown slot back unchanged.
type_from_v2_passthrough(map, type) ==
  IF ~pw_map_has_item(map, type)
  THEN type
  ELSE LET index == pw_map_lookup(map, type)
       IN IF ~IsRow(index) THEN SPA_ID_INVALID ELSE Row(index).id

\* pw_protocol_native0_type_from_v2(client, type): legacy slot -> current id.
pw_protocol_native0_type_from_v2(map, type) ==
  IF ~pw_map_has_item(map, type)
  THEN SPA_ID_INVALID
  ELSE LET index == pw_map_lookup(map, type)
       IN IF ~IsRow(index) THEN SPA_ID_INVALID ELSE Row(index).id

\* pw_protocol_native0_type_to_v2 that returns the last matching row + 1,
\* the loop counter after the match.
type_to_v2_off_by_one(type) ==
  LET name == spa_debug_type_find_name(type)
      Match(i) == Row(i).name # NoName /\ Row(i).name = name
  IN IF name = NoName \/ ~(\E i \in 0..(N_ELEMENTS - 1) : Match(i))
     THEN SPA_ID_INVALID
     ELSE 1 + (CHOOSE i \in 0..(N_ELEMENTS - 1) :
                 Match(i) /\ \A j \in 0..(i - 1) : ~Match(j))

\* pw_protocol_native0_type_to_v2(client, info, type): current id -> row index.
pw_protocol_native0_type_to_v2(type) ==
  LET name == spa_debug_type_find_name(type)
      Match(i) == Row(i).name # NoName /\ Row(i).name = name
  IN IF name = NoName \/ ~(\E i \in 0..(N_ELEMENTS - 1) : Match(i))
     THEN SPA_ID_INVALID
     ELSE CHOOSE i \in 0..(N_ELEMENTS - 1) :
            Match(i) /\ \A j \in 0..(i - 1) : ~Match(j)

(***************************************************************************)
(* POD constructors                                                        *)
(***************************************************************************)
Id(v) == [tag |-> "Id", v |-> v]
Int32(v) == [tag |-> "Int", v |-> v]
None == [tag |-> "None"]
Struct(ch) == [tag |-> "Struct", ch |-> ch]
Object(type, id, ch) == [tag |-> "Object", type |-> type, id |-> id, ch |-> ch]
Choice(type, flags, child, csize, vals) ==
  [tag |-> "Choice", type |-> type, flags |-> flags, child |-> child,
   csize |-> csize, vals |-> vals]
\* A property of a current Object: struct spa_pod_prop {key, flags, value}.
Prop(key, flags, value) == [tag |-> "Prop", key |-> key, flags |-> flags, value |-> value]
\* The two words spa_pod_builder_prop appends.
PropHdr(key, flags) == [tag |-> "PropHdr", key |-> key, flags |-> flags]
\* A pod pointer that is NULL.
NullPod == [tag |-> "NULL"]

\* The result of a walker: its return value and what it appended to the builder.
Walk(res, out) == [res |-> res, out |-> out]

\* spa_pod_is_id: an Id whose body holds a whole identifier.
spa_pod_is_id(p) == p.tag = "Id"

\* SPA_FLAG_IS_SET(flags, SPA_POD_PROP0_FLAG_UNSET)
IsUnset(flags) == (flags \div SPA_POD_PROP0_FLAG_UNSET) % 2 = 1

(***************************************************************************)
(* remap_from_v2: legacy tree -> current tree                              *)
(***************************************************************************)
\* The range bits as a choice type without the test of the UNSET flag.
ChoiceOfFlags_declared(flags) ==
  LET range == flags % (SPA_POD_PROP0_RANGE_MASK + 1)
  IN CASE range = SPA_POD_PROP0_RANGE_MIN_MAX -> SPA_CHOICE_Range
       [] range = SPA_POD_PROP0_RANGE_STEP -> SPA_CHOICE_Step
       [] range = SPA_POD_PROP0_RANGE_ENUM -> SPA_CHOICE_Enum
       [] range = SPA_POD_PROP0_RANGE_FLAGS -> SPA_CHOICE_Flags
       [] OTHER -> SPA_CHOICE_None

\* The range bits of a legacy Prop as a choice type (lines 334-353).
ChoiceOfFlags(flags) ==
  LET range == flags % (SPA_POD_PROP0_RANGE_MASK + 1)
      type == CASE range = SPA_POD_PROP0_RANGE_MIN_MAX -> SPA_CHOICE_Range
                [] range = SPA_POD_PROP0_RANGE_STEP -> SPA_CHOICE_Step
                [] range = SPA_POD_PROP0_RANGE_ENUM -> SPA_CHOICE_Enum
                [] range = SPA_POD_PROP0_RANGE_FLAGS -> SPA_CHOICE_Flags
                [] OTHER -> SPA_CHOICE_None
  IN IF ~IsUnset(flags) THEN SPA_CHOICE_None ELSE type

\* case SPA_TYPE_Choice that translates the default of an Id Prop and copies
\* its alternatives as they are.
from_v2_choice_default_only(map, b) ==
  LET key == pw_protocol_native0_type_from_v2(map, b.type)
      type == ChoiceOfFlags(b.flags)
  IN IF b.child = "Id"
     THEN IF b.csize < 4
          THEN Walk(-EINVAL, <<PropHdr(key, 0)>>)
          ELSE Walk(0, <<PropHdr(key, 0),
                         Choice(type, 0, "Id", b.csize,
                                [i \in 1..Len(b.vals) |->
                                   IF i = 1
                                   THEN pw_protocol_native0_type_from_v2(map, b.vals[i])
                                   ELSE b.vals[i]])>>)
     ELSE Walk(0, <<PropHdr(key, 0), Choice(type, 0, b.child, b.csize, b.vals)>>)

\* case SPA_TYPE_Choice of remap_from_v2 (lines 324-372).
from_v2_choice(map, b) ==
  LET key == pw_protocol_native0_type_from_v2(map, b.type)
      type == ChoiceOfFlags(b.flags)
  IN IF b.child = "Id"
     THEN IF b.csize < 4
          THEN \* spa_pod_get_id fails: prop header and choice frame are written
               Walk(-EINVAL, <<PropHdr(key, 0)>>)
          ELSE Walk(0, <<PropHdr(key, 0),
                         Choice(type, 0, "Id", b.csize,
                                [i \in 1..Len(b.vals) |->
                                   pw_protocol_native0_type_from_v2(map, b.vals[i])])>>)
     ELSE Walk(0, <<PropHdr(key, 0), Choice(type, 0, b.child, b.csize, b.vals)>>)

RECURSIVE remap_from_v2(_, _)
RECURSIVE from_v2_struct(_, _, _)
RECURSIVE from_v2_object_swapped(_, _, _, _, _)
RECURSIVE from_v2_object(_, _, _, _, _)

\* SPA_POD_FOREACH of case SPA_TYPE_Struct (lines 419-421), from child i on.
from_v2_struct(map, ch, i) ==
  IF i > Len(ch)
  THEN Walk(0, <<>>)
  ELSE LET r == remap_from_v2(map, ch[i])
       IN IF r.res < 0
          THEN r
          ELSE LET rest == from_v2_struct(map, ch, i + 1)
               IN Walk(rest.res, r.out \o rest.out)

\* The body loop of case SPA_TYPE_Object with the two Format properties in
\* the wrong order (mediaSubtype first).
from_v2_object_swapped(map, type, ch, i, count) ==
  IF i > Len(ch)
  THEN Walk(0, <<>>)
  ELSE LET p == ch[i]
       IN IF type = SPA_TYPE_OBJECT_Format /\ count < 2
          THEN IF ~spa_pod_is_id(p)
               THEN from_v2_object_swapped(map, type, ch, i + 1, count)
               ELSE LET id == pw_protocol_native0_type_from_v2(map, p.v)
                        key == IF count = 0 THEN SPA_FORMAT_mediaSubtype
                                            ELSE SPA_FORMAT_mediaType
                        rest == from_v2_object_swapped(map, type, ch, i + 1, count + 1)
                    IN Walk(rest.res, <<PropHdr(key, 0), Id(id)>> \o rest.out)
          ELSE LET r == remap_from_v2(map, p)
               IN IF r.res < 0
                  THEN r
                  ELSE LET rest == from_v2_object_swapped(map, type, ch, i + 1, count)
                       IN Walk(rest.res, r.out \o rest.out)

\* SPA_POD_OBJECT_BODY_FOREACH0 of case SPA_TYPE_Object (lines 386-409), from
\* child i on, with `count` Format identifiers consumed so far.
from_v2_object(map, type, ch, i, count) ==
  IF i > Len(ch)
  THEN Walk(0, <<>>)
  ELSE LET p == ch[i]
       IN IF type = SPA_TYPE_OBJECT_Format /\ count < 2
          THEN IF ~spa_pod_is_id(p)
               THEN from_v2_object(map, type, ch, i + 1, count)
               ELSE LET id == pw_protocol_native0_type_from_v2(map, p.v)
                        key == IF count = 0 THEN SPA_FORMAT_mediaType
                                            ELSE SPA_FORMAT_mediaSubtype
                        rest == from_v2_object(map, type, ch, i + 1, count + 1)
                    IN Walk(rest.res, <<PropHdr(key, 0), Id(id)>> \o rest.out)
          ELSE LET r == remap_from_v2(map, p)
               IN IF r.res < 0
                  THEN r
                  ELSE LET rest == from_v2_object(map, type, ch, i + 1, count)
                       IN Walk(rest.res, r.out \o rest.out)

\* remap_from_v2 that translates the two words of an Object in place,
\* without switching them.
remap_from_v2_unswapped(map, p) ==
  CASE p.tag = "Id" ->
         Walk(0, <<Id(pw_protocol_native0_type_from_v2(map, p.v))>>)
    [] p.tag = "Choice" -> from_v2_choice(map, p)
    [] p.tag = "Object" ->
         LET type == pw_protocol_native0_type_from_v2(map, p.type)
             id == pw_protocol_native0_type_from_v2(map, p.id)
             body == from_v2_object(map, type, p.ch, 1, 0)
         IN Walk(body.res, <<Object(type, id, body.out)>>)
    [] p.tag = "Struct" ->
         LET body == from_v2_struct(map, p.ch, 1)
         IN Walk(body.res, <<Struct(body.out)>>)
    [] OTHER -> Walk(0, <<>>)

\* remap_from_v2 that gives up on an Id it cannot translate: -EINVAL and
\* nothing written.
remap_from_v2_strict(map, p) ==
  CASE p.tag = "Id" ->
         IF pw_protocol_native0_type_from_v2(map, p.v) = SPA_ID_INVALID
         THEN Walk(-EINVAL, <<>>)
         ELSE Walk(0, <<Id(pw_protocol_native0_type_from_v2(map, p.v))>>)
    [] p.tag = "Choice" -> from_v2_choice(map, p)
    [] p.tag = "Object" ->
         LET type == pw_protocol_native0_type_from_v2(map, p.id)
             id == pw_protocol_native0_type_from_v2(map, p.type)
             body == from_v2_object(map, type, p.ch, 1, 0)
         IN Walk(body.res, <<Object(type, id, body.out)>>)
    [] p.tag = "Struct" ->
         LET body == from_v2_struct(map, p.ch, 1)
         IN Walk(body.res, <<Struct(body.out)>>)
    [] OTHER -> Walk(0, <<>>)

\* remap_from_v2(type, body, size, client, builder) (lines 313-429).
remap_from_v2(map, p) ==
  CASE p.tag = "Id" ->
         Walk(0, <<Id(pw_protocol_native0_type_from_v2(map, p.v))>>)
    [] p.tag = "Choice" -> from_v2_choice(map, p)
    [] p.tag = "Object" ->
         \* type and id are switched
         LET type == pw_protocol_native0_type_from_v2(map, p.id)
             id == pw_protocol_native0_type_from_v2(map, p.type)
             body == from_v2_object(map, type, p.ch, 1, 0)
         IN Walk(body.res, <<Object(type, id, body.out)>>)
    [] p.tag = "Struct" ->
         LET body == from_v2_struct(map, p.ch, 1)
         IN Walk(body.res, <<Struct(body.out)>>)
    [] OTHER -> Walk(0, <<>>)

(***************************************************************************)
(* remap_to_v2: current tree -> legacy tree                                *)
(***************************************************************************)
\* spa_pod_get_values(pod, &n_vals, &choice): the uniform view of a property
\* value.  A Choice gives its own description, any other value is one value
\* of choice type None.
spa_pod_get_values(pod) ==
  IF pod.tag = "Choice"
  THEN [n_vals |-> Len(pod.vals), choice |-> pod.type, child |-> pod.child,
        csize |-> pod.csize, vals |-> pod.vals]
  ELSE [n_vals |-> 1, choice |-> SPA_CHOICE_None, child |-> pod.tag,
        csize |-> 4, vals |-> <<pod.v>>]

\* The legacy flags from a choice type with the range bits only: UNSET is
\* never set.
FlagsOfChoice_range_only(choice) ==
  CASE choice = SPA_CHOICE_None -> SPA_POD_PROP0_RANGE_NONE
    [] choice = SPA_CHOICE_Range -> SPA_POD_PROP0_RANGE_MIN_MAX
    [] choice = SPA_CHOICE_Step -> SPA_POD_PROP0_RANGE_STEP
    [] choice = SPA_CHOICE_Enum -> SPA_POD_PROP0_RANGE_ENUM
    [] choice = SPA_CHOICE_Flags -> SPA_POD_PROP0_RANGE_FLAGS
    [] OTHER -> 0

\* The legacy flags synthesized from a choice type (lines 490-507).
FlagsOfChoice(choice) ==
  CASE choice = SPA_CHOICE_None -> SPA_POD_PROP0_RANGE_NONE
    [] choice = SPA_CHOICE_Range -> SPA_POD_PROP0_RANGE_MIN_MAX + SPA_POD_PROP0_FLAG_UNSET
    [] choice = SPA_CHOICE_Step -> SPA_POD_PROP0_RANGE_STEP + SPA_POD_PROP0_FLAG_UNSET
    [] choice = SPA_CHOICE_Enum -> SPA_POD_PROP0_RANGE_ENUM + SPA_POD_PROP0_FLAG_UNSET
    [] choice = SPA_CHOICE_Flags -> SPA_POD_PROP0_RANGE_FLAGS + SPA_POD_PROP0_FLAG_UNSET
    [] OTHER -> 0

\* One turn of the property loop without the special case of the Format
\* media properties: they are written as Props like the others.
to_v2_prop_media_wrapped(b_type, p) ==
  LET values == spa_pod_get_values(p.value)
      flags == FlagsOfChoice(values.choice)
      key == pw_protocol_native0_type_to_v2(p.key)
  IN IF values.child = "Id"
     THEN <<Choice(key, flags, "Id", 4,
                   [i \in 1..values.n_vals |->
                      pw_protocol_native0_type_to_v2(values.vals[i])])>>
     ELSE <<Choice(key, flags, values.child, values.csize,
                   SubSeq(values.vals, 1, values.n_vals))>>

\* One turn of the property loop that writes a value of choice type None
\* bare, without the Prop around it.
to_v2_prop_collapsing(b_type, p) ==
  LET values == spa_pod_get_values(p.value)
  IN IF b_type = SPA_TYPE_OBJECT_Format
        /\ (p.key = SPA_FORMAT_mediaType \/ p.key = SPA_FORMAT_mediaSubtype)
     THEN IF ~(values.child = "Id" /\ values.csize >= 4)
          THEN <<>>
          ELSE <<Id(pw_protocol_native0_type_to_v2(values.vals[1]))>>
     ELSE LET flags == FlagsOfChoice(values.choice)
              key == pw_protocol_native0_type_to_v2(p.key)
          IN IF values.choice = SPA_CHOICE_None
             THEN IF values.child = "Id"
                  THEN <<Id(pw_protocol_native0_type_to_v2(values.vals[1]))>>
                  ELSE <<Int32(values.vals[1])>>
             ELSE IF values.child = "Id"
                  THEN <<Choice(key, flags, "Id", 4,
                                [i \in 1..values.n_vals |->
                                   pw_protocol_native0_type_to_v2(values.vals[i])])>>
                  ELSE <<Choice(key, flags, values.child, values.csize,
                                SubSeq(values.vals, 1, values.n_vals))>>

\* One turn of SPA_POD_OBJECT_BODY_FOREACH in case SPA_TYPE_Object
\* (lines 469-525): what property p of an object of type b_type appends.
to_v2_prop(b_type, p) ==
  LET values == spa_pod_get_values(p.value)
  IN IF b_type = SPA_TYPE_OBJECT_Format
        /\ (p.key = SPA_FORMAT_mediaType \/ p.key = SPA_FORMAT_mediaSubtype)
     THEN IF ~(values.child = "Id" /\ values.csize >= 4)
          THEN <<>>
          ELSE <<Id(pw_protocol_native0_type_to_v2(values.vals[1]))>>
     ELSE LET flags == FlagsOfChoice(values.choice)
              key == pw_protocol_native0_type_to_v2(p.key)
          IN IF values.child = "Id"
             THEN <<Choice(key, flags, "Id", 4,
                           [i \in 1..values.n_vals |->
                              pw_protocol_native0_type_to_v2(values.vals[i])])>>
             ELSE <<Choice(key, flags, values.child, values.csize,
                           SubSeq(values.vals, 1, values.n_vals))>>

RECURSIVE to_v2_props(_, _, _)
\* SPA_POD_OBJECT_BODY_FOREACH (lines 469-525), from property i on.
to_v2_props(b_type, ch, i) ==
  IF i > Len(ch) THEN <<>> ELSE to_v2_prop(b_type, ch[i]) \o to_v2_props(b_type, ch, i + 1)

RECURSIVE remap_to_v2(_)
RECURSIVE to_v2_struct(_, _)

\* SPA_POD_FOREACH of case SPA_TYPE_Struct (lines 535-537), from child i on.
to_v2_struct(ch, i) ==
  IF i > Len(ch)
  THEN Walk(0, <<>>)
  ELSE LET r == remap_to_v2(ch[i])
       IN IF r.res < 0
          THEN r
          ELSE LET rest == to_v2_struct(ch, i + 1)
               IN Walk(rest.res, r.out \o rest.out)

\* remap_to_v2 without the special case of Command objects: their two words
\* are translated and switched like those of any object.
remap_to_v2_no_command(p) ==
  CASE p.tag = "Id" -> Walk(0, <<Id(pw_protocol_native0_type_to_v2(p.v))>>)
    [] p.tag = "Object" ->
         LET type == pw_protocol_native0_type_to_v2(p.type)
         IN Walk(0, <<Object(pw_protocol_native0_type_to_v2(p.id), type,
                             to_v2_props(p.type, p.ch, 1))>>)
    [] p.tag = "Struct" ->
         LET body == to_v2_struct(p.ch, 1)
         IN Walk(body.res, <<Struct(body.out)>>)
    [] OTHER -> Walk(0, <<>>)

\* remap_to_v2(client, info, type, body, size, builder) (lines 431-545).
remap_to_v2(p) ==
  CASE p.tag = "Id" -> Walk(0, <<Id(pw_protocol_native0_type_to_v2(p.v))>>)
    [] p.tag = "Object" ->
         IF p.type = SPA_TYPE_COMMAND_Node
         THEN Walk(0, <<Object(0, pw_protocol_native0_type_to_v2(p.id),
                               to_v2_props(p.type, p.ch, 1))>>)
         ELSE \* type and id are switched
              LET type == pw_protocol_native0_type_to_v2(p.type)
              IN Walk(0, <<Object(pw_protocol_native0_type_to_v2(p.id), type,
                                  to_v2_props(p.type, p.ch, 1))>>)
    [] p.tag = "Struct" ->
         LET body == to_v2_struct(p.ch, 1)
         IN Walk(body.res, <<Struct(body.out)>>)
    [] OTHER -> Walk(0, <<>>)

(***************************************************************************)
(* The UpdateTypes demarshaler                                             *)
(***************************************************************************)
\* An UpdateTypes message as the parser sees it: whether the struct and its
\* two header integers parse, the header, and the strings that follow.
UpdateTypesMsg(header, first_id, n_types, strs) ==
  [header |-> header, first_id |-> first_id, n_types |-> n_types, strs |-> strs]

RECURSIVE insert_types_no_advance(_, _, _, _)
\* The insertion loop without first_id++: every name lands in slot first_id.
insert_types_no_advance(map, first_id, strs, i) ==
  IF i > Len(strs)
  THEN map
  ELSE insert_types_no_advance(
         pw_map_insert_at(map, first_id, pw_protocol_native0_find_type(strs[i])),
         first_id, strs, i + 1)

RECURSIVE insert_types(_, _, _, _)
\* The insertion loop (lines 680-684) from string i on: slot first_id gets the
\* row of strs[i], and both advance.
insert_types(map, first_id, strs, i) ==
  IF i > Len(strs)
  THEN map
  ELSE insert_types(
         pw_map_insert_at(map, first_id, pw_protocol_native0_find_type(strs[i])),
         first_id + 1, strs, i + 1)

\* core_demarshal_update_types_server that inserts each name as it parses
\* it: a message that ends before its n_types names leaves the names it did
\* hold in the map and returns -EINVAL.
update_types_server_eager(map, msg) ==
  IF ~msg.header
  THEN [res |-> -EINVAL, map |-> map]
  ELSE IF Len(msg.strs) < msg.n_types
       THEN [res |-> -EINVAL, map |-> insert_types(map, msg.first_id, msg.strs, 1)]
       ELSE [res |-> 0,
             map |-> insert_types(map, msg.first_id, SubSeq(msg.strs, 1, msg.n_types), 1)]

\* core_demarshal_update_types_server that takes the names a short message
\* does hold and reports success.
update_types_server_lenient(map, msg) ==
  IF ~msg.header
  THEN [res |-> -EINVAL, map |-> map]
  ELSE IF Len(msg.strs) < msg.n_types
       THEN [res |-> 0, map |-> insert_types(map, msg.first_id, msg.strs, 1)]
       ELSE [res |-> 0,
             map |-> insert_types(map, msg.first_id, SubSeq(msg.strs, 1, msg.n_types), 1)]

\* core_demarshal_update_types_server (lines 655-686): the return value and
\* the map it leaves.
core_demarshal_update_types_server(map, msg) ==
  IF ~msg.header
  THEN [res |-> -EINVAL, map |-> map]
  ELSE IF Len(msg.strs) < msg.n_types
       THEN [res |-> -EINVAL, map |-> map]
       ELSE [res |-> 0,
             map |-> insert_types(map, msg.first_id, SubSeq(msg.strs, 1, msg.n_types), 1)]

(***************************************************************************)
(* The remap entry points                                                  *)
(***************************************************************************)
\* spa_pod_copy(b.data): the POD at the start of the scratch buffer.  When
\* the walker appended nothing the buffer is uninitialised stack memory and
\* the copy is whatever it held (garbage); when the first thing appended
\* is the two words of spa_pod_builder_prop they are read as a POD header.
spa_pod_copy(out, garbage) ==
  IF out = <<>>
  THEN garbage
  ELSE IF out[1].tag = "PropHdr"
       THEN [tag |-> "Misread", size |-> out[1].key, type |-> out[1].flags]
       ELSE out[1]

\* pw_protocol_native0_pod_from_v2 (lines 550-571): the walker's result, the
\* scratch buffer, the returned copy (NULL on failure) and errno when set.
pw_protocol_native0_pod_from_v2(map, pod, garbage) ==
  IF pod = NullPod
  THEN [res |-> 0, out |-> <<>>, ret |-> NullPod, errno |-> 0]
  ELSE LET w == remap_from_v2(map, pod)
       IN IF w.res < 0
          THEN [res |-> w.res, out |-> w.out, ret |-> NullPod, errno |-> -w.res]
          ELSE [res |-> 0, out |-> w.out, ret |-> spa_pod_copy(w.out, garbage),
                errno |-> 0]

\* pw_protocol_native0_pod_to_v2 (lines 573-592): the return value and what
\* was appended to the caller's builder.
pw_protocol_native0_pod_to_v2(pod) ==
  IF pod = NullPod
  THEN [ret |-> 0, out |-> <<None>>]
  ELSE LET w == remap_to_v2(pod)
       IN IF w.res < 0
          THEN [ret |-> -w.res, out |-> w.out]
          ELSE [ret |-> 0, out |-> w.out]

(***************************************************************************)
(* The memory a remap call works on                                        *)
(***************************************************************************)
\* The blocks of memory a call can reach: the tree the caller passes in, the
\* scratch buffer on the stack of pod_from_v2, the block spa_pod_copy
\* allocates, and the caller's builder.
Regions == {"input", "buffer", "heap", "builder"}

\* The memory at the call: the input tree in its block, the scratch buffer
\* not written yet, nothing allocated, the builder empty.
MemoryAtCall(pod, garbage) ==
  [region \in Regions |->
     CASE region = "input" -> <<pod>>
       [] region = "buffer" -> <<garbage>>
       [] OTHER -> <<>>]

\* A store of `content` into a block.
Store(mem, region, content) == [mem EXCEPT ![region] = content]

\* pw_protocol_native0_pod_from_v2 that translates the tree where it lies
\* and hands the caller's own pointer back.
pod_from_v2_stores_in_place(map, pod, garbage) ==
  LET r == pw_protocol_native0_pod_from_v2(map, pod, garbage)
      mem == MemoryAtCall(pod, garbage)
  IN IF pod = NullPod \/ r.res < 0 \/ r.out = <<>>
     THEN [mem |-> mem, at |-> "NULL"]
     ELSE [mem |-> Store(mem, "input", <<r.ret>>), at |-> "input"]

\* The stores of pw_protocol_native0_pod_from_v2 (lines 550-571) and the
\* block its result lies in: the walker reads *body and appends to the
\* builder over buffer[4096]; spa_pod_copy allocates the result.
pod_from_v2_stores(map, pod, garbage) ==
  LET r == pw_protocol_native0_pod_from_v2(map, pod, garbage)
      mem == MemoryAtCall(pod, garbage)
      walked == IF pod = NullPod \/ r.out = <<>> THEN mem ELSE Store(mem, "buffer", r.out)
  IN IF r.ret = NullPod
     THEN [mem |-> walked, at |-> "NULL"]
     ELSE [mem |-> Store(walked, "heap", <<r.ret>>), at |-> "heap"]

\* pw_protocol_native0_pod_to_v2 that writes the legacy identifiers over
\* the current ones of the input before copying it out.
pod_to_v2_stores_in_place(pod) ==
  LET r == pw_protocol_native0_pod_to_v2(pod)
      mem == MemoryAtCall(pod, None)
  IN [mem |-> Store(Store(mem, "input", r.out), "builder", r.out), at |-> "builder"]

\* The stores of pw_protocol_native0_pod_to_v2 (lines 573-592): the walker
\* reads *body and appends to the caller's builder b.
pod_to_v2_stores(pod) ==
  LET r == pw_protocol_native0_pod_to_v2(pod)
      mem == MemoryAtCall(pod, None)
  IN [mem |-> Store(mem, "builder", r.out), at |-> "builder"]

(***************************************************************************)
(* Bounds and inputs                                                       *)
(***************************************************************************)
\* The most names in an incremental UpdateTypes message.
MaxTypes == 2
\* The most children of a generated Struct or Object.
MaxChildren == 3

SeqsUpTo(S, n) == UNION {[1..k -> S] : k \in 0..n}

\* The legacy strings of the whole table, in row order: what a peer with the
\* same table announces.
AllTypes == [i \in 1..N_ELEMENTS |-> type_map[i].type]

FirstIds == {0, 1}
NameSample == {Row(1).type, "Spa:Bogus"}

UpdateTypesMsgs ==
  {UpdateTypesMsg(TRUE, 0, N_ELEMENTS, AllTypes)} \cup
  {UpdateTypesMsg(h, f, n, strs) :
     h \in BOOLEAN, f \in FirstIds, n \in 0..MaxTypes,
     strs \in SeqsUpTo(NameSample, MaxTypes)}

\* Legacy slots asked for: every row index and one beyond.
SlotSample == 0..N_ELEMENTS
\* Current identifiers asked for.
IdSample == {type_map[i].id : i \in 1..N_ELEMENTS} \cup
            {UnknownId, SPA_TYPE_COMMAND_Node, SPA_FORMAT_mediaType}

\* Legacy PODs.  Identifiers are slots; with the whole table announced
\* slot i is row i.
P0_enum == Choice(6, SPA_POD_PROP0_RANGE_ENUM + SPA_POD_PROP0_FLAG_UNSET, "Id", 4, <<4, 2>>)
P0_int == Choice(6, SPA_POD_PROP0_RANGE_NONE, "Int", 4, <<44100>>)
\* A Prop whose value header says Id but whose size holds no identifier.
P0_bad == Choice(6, SPA_POD_PROP0_RANGE_NONE, "Id", 0, <<>>)

\* The capacity of the scratch buffer of pw_protocol_native0_pod_from_v2.
BufferSize == 4096

\* A Prop whose value is one string as long as the scratch buffer.
P0_big == Choice(6, SPA_POD_PROP0_RANGE_NONE, "String", BufferSize, <<0>>)

\* Legacy Props with every range type (and one value past the last), with
\* and without the UNSET flag, each with a default and one alternative.
P0_ranges ==
  {Choice(6, range + unset, "Int", 4, <<1, 2>>) :
     range \in SPA_POD_PROP0_RANGE_NONE..(SPA_POD_PROP0_RANGE_FLAGS + 1),
     unset \in {0, SPA_POD_PROP0_FLAG_UNSET}}

V0ObjectChildren == {Id(4), Id(2), Int32(7), P0_enum}
V0StructChildren == {Id(4), Id(2), Int32(7), P0_int, Struct(<<Id(2)>>)}

V0Pods ==
  P0_ranges \cup
  {Id(4), Id(2), Int32(7), P0_enum, P0_int, P0_bad, NullPod,
   Struct(<<Id(4), P0_bad, Id(2)>>),
   Struct(<<Object(3, 1, <<Id(4), Id(5)>>)>>),
   Object(3, 1, <<P0_big>>), Struct(<<Id(4), P0_big>>)} \cup
  {Struct(ch) : ch \in SeqsUpTo(V0StructChildren, MaxChildren)} \cup
  {Object(3, id, ch) : id \in {1, 2}, ch \in SeqsUpTo(V0ObjectChildren, MaxChildren)}

\* Current PODs.
V2Props ==
  {Prop(SPA_FORMAT_mediaType, 0, Id(SPA_MEDIA_TYPE_audio)),
   Prop(SPA_FORMAT_mediaSubtype, 0, Id(SPA_MEDIA_SUBTYPE_raw)),
   Prop(SPA_FORMAT_AUDIO_rate, 0, Choice(SPA_CHOICE_Enum, 0, "Int", 4, <<44100, 48000>>)),
   Prop(SPA_FORMAT_AUDIO_rate, 0, Int32(44100)),
   \* a media type that is not an Id: spa_pod_get_id fails on it
   Prop(SPA_FORMAT_mediaType, 0, Int32(7))}
\* Props objects with one property of each choice type (and one type past
\* the last); the Choice of type None holds its one value.
V2Choices ==
  {Object(SPA_TYPE_OBJECT_Props, SPA_PARAM_EnumFormat,
          <<Prop(SPA_FORMAT_AUDIO_rate, 0,
                 Choice(choice, 0, "Int", 4,
                        IF choice = SPA_CHOICE_None THEN <<1>> ELSE <<1, 2, 3>>))>>) :
     choice \in SPA_CHOICE_None..(SPA_CHOICE_Flags + 1)}

V2StructChildren ==
  {Id(SPA_MEDIA_TYPE_audio), Id(UnknownId), Int32(7), Struct(<<Id(SPA_MEDIA_SUBTYPE_raw)>>)}

V2Pods ==
  V2Choices \cup
  {Id(SPA_MEDIA_TYPE_audio), Id(UnknownId), Int32(7), NullPod,
   Object(SPA_TYPE_COMMAND_Node, SPA_NODE_COMMAND_Pause, <<>>),
   Struct(<<Object(SPA_TYPE_OBJECT_Format, SPA_PARAM_EnumFormat,
                   <<Prop(SPA_FORMAT_mediaType, 0, Id(SPA_MEDIA_TYPE_audio)),
                     Prop(SPA_FORMAT_mediaSubtype, 0, Id(SPA_MEDIA_SUBTYPE_raw))>>)>>)} \cup
  {Struct(ch) : ch \in SeqsUpTo(V2StructChildren, MaxChildren)} \cup
  {Object(t, SPA_PARAM_EnumFormat, ch) :
     t \in {SPA_TYPE_OBJECT_Format, SPA_TYPE_OBJECT_Props},
     ch \in SeqsUpTo(V2Props, MaxChildren)}

\* What an uninitialised scratch buffer may hold where a POD header is read.
UninitOutcomes == {[tag |-> "Garbage", size |-> 0], [tag |-> "Garbage", size |-> 8]}

\* The proxies a client holds are named by handles 1..MaxProxies; a proxy
\* may be referenced by the user and by MaxHolders other holders.
MaxProxies == 2
MaxHolders == 1
MaxDestroys == 2
Proxies == 1..MaxProxies
NULL == 0
EPROTO == 71
ENOMEM == 12

\* Memory that holds no proxy.  emitted and sent count, for the proxy in this
\* block, the destroy events emitted and the destroy requests sent; calls
\* counts the pw_proxy_destroy calls made on it.
FreeProxy ==
  [alloc |-> FALSE, id |-> SPA_ID_INVALID, refcount |-> 0, held |-> 0,
   zombie |-> FALSE, removed |-> FALSE, calls |-> 0, emitted |-> 0, sent |-> 0]

\* The client devices are named 1..MaxDevices.
MaxDevices == 2
Devices == 1..MaxDevices

\* The three hooks of struct impl.
Hooks == {"device_listener", "resource_listener", "object_listener"}

\* A client device that has not been made.  device and resource are the
\* states of the pw_device and of the pw_resource ("none", "alive",
\* "destroyed"); device_ptr and resource_ptr tell whether impl->device and
\* impl->resource are set; hooks holds the hooks that are attached.
\* registers and implementations count the calls of pw_device_register and
\* pw_device_set_implementation, infos the info events handled, runs the
\* runs of the two destroy handlers; cut tells that a destroy cascade was
\* still going on MaxDepth calls deep.
NoImpl ==
  [made |-> FALSE, device |-> "none", resource |-> "none",
   device_ptr |-> FALSE, resource_ptr |-> FALSE, hooks |-> {},
   registered |-> FALSE, registers |-> 0, implementations |-> 0, infos |-> 0,
   runs |-> [device_destroy |-> 0, device_resource_destroy |-> 0], cut |-> FALSE]

ImplInit == [d \in Devices |-> NoImpl]

(***************************************************************************)
(* The session of one legacy client                                        *)
(***************************************************************************)
Init ==
  /\ types = EmptyMap
  /\ initialised = FALSE
  /\ last = [op |-> "none"]
  /\ obj = [props |-> <<>>, size |-> 0, open |-> TRUE]
  /\ found = [op |-> "none"]
  /\ remote = [objects |-> EmptyMap, core_proxy |-> FALSE]
  /\ proxies = [h \in Proxies |-> FreeProxy]
  /\ call = [op |-> "none"]
  /\ conn = [seq |-> 0, sent |-> <<>>]
  /\ impl = ImplInit
  /\ factory = [op |-> "none"]

\* No message is being handled: the connection waits for the next one.
Idle == last.op = "none"

\* The client sends UpdateTypes: core_demarshal_update_types_server runs.
UpdateTypes ==
  /\ Idle
  /\ \E msg \in UpdateTypesMsgs :
       LET r == core_demarshal_update_types_server(types, msg)
       IN /\ types' = r.map
          /\ initialised' = (initialised \/ r.res = 0)
          /\ last' = [op |-> "update_types", msg |-> msg, res |-> r.res, before |-> types]
  /\ UNCHANGED other_vars

\* The client sends Sync: core_demarshal_sync runs (lines 217-228); the map
\* is not touched.
Sync ==
  /\ Idle
  /\ last' = [op |-> "sync"]
  /\ UNCHANGED <<types, initialised, other_vars>>

\* A demarshaler translates a legacy slot (as core_demarshal_create_object
\* does at line 623).
TypeFromV2 ==
  /\ Idle
  /\ \E type \in SlotSample :
       last' = [op |-> "type_from_v2", type |-> type,
                ret |-> pw_protocol_native0_type_from_v2(types, type)]
  /\ UNCHANGED <<types, initialised, other_vars>>

\* A marshaler translates a current identifier (as registry_marshal_global
\* does at line 701).
TypeToV2 ==
  /\ Idle
  /\ \E type \in IdSample :
       last' = [op |-> "type_to_v2", type |-> type,
                ret |-> pw_protocol_native0_type_to_v2(type)]
  /\ UNCHANGED <<types, initialised, other_vars>>

\* A demarshaler remaps a legacy POD of the client.  The garbage is drawn
\* only when the copy reads it.
PodFromV2 ==
  /\ Idle
  /\ \E pod \in V0Pods :
       \E garbage \in IF pod # NullPod /\ remap_from_v2(types, pod) = Walk(0, <<>>)
                      THEN UninitOutcomes
                      ELSE {None} :
         LET r == pw_protocol_native0_pod_from_v2(types, pod, garbage)
             m == pod_from_v2_stores(types, pod, garbage)
         IN last' = [op |-> "pod_from_v2", pod |-> pod, res |-> r.res, out |-> r.out,
                     ret |-> r.ret, errno |-> r.errno, mem |-> m.mem, at |-> m.at]
  /\ UNCHANGED <<types, initialised, other_vars>>

\* A marshaler remaps a current POD for the client.
PodToV2 ==
  /\ Idle
  /\ \E pod \in V2Pods :
       LET r == pw_protocol_native0_pod_to_v2(pod)
           m == pod_to_v2_stores(pod)
       IN last' = [op |-> "pod_to_v2", pod |-> pod, out |-> r.out, ret |-> r.ret,
                   mem |-> m.mem, at |-> m.at]
  /\ UNCHANGED <<types, initialised, other_vars>>

\* The handler returns and the connection goes back to waiting.
Return ==
  /\ ~Idle
  /\ last' = [op |-> "none"]
  /\ UNCHANGED <<types, initialised, other_vars>>

Next == UpdateTypes \/ Sync \/ TypeFromV2 \/ TypeToV2 \/ PodFromV2 \/ PodToV2 \/ Return

Spec == Init /\ [][Next]_vars

(***************************************************************************)
(* Vocabulary of the properties                                            *)
(***************************************************************************)
Rows == 0..(N_ELEMENTS - 1)
Range(seq) == {seq[i] : i \in DOMAIN seq}

\* Some row of the global table carries the current identifier id.
HasRow(id) == \E r \in Rows : Row(r).id = id

\* The client's map sends slot i to row i, for every row.
IdentityMap(map) == \A r \in Rows : r \in DOMAIN map /\ map[r] = r

RECURSIVE V2Ids(_)
\* The identifiers of a current tree: Id values, the two words of an Object,
\* property keys and the Id values of property values.
V2Ids(p) ==
  CASE p.tag = "Id" -> {p.v}
    [] p.tag = "Struct" -> UNION {V2Ids(p.ch[i]) : i \in DOMAIN p.ch}
    [] p.tag = "Object" -> {p.type, p.id} \cup UNION {V2Ids(p.ch[i]) : i \in DOMAIN p.ch}
    [] p.tag = "Prop" -> {p.key} \cup V2Ids(p.value)
    [] p.tag = "Choice" -> IF p.child = "Id" THEN Range(p.vals) ELSE {}
    [] OTHER -> {}

RECURSIVE OutIds(_)
\* The identifiers of what a walker appended (a sequence of items).
OutIds(items) ==
  UNION {LET p == items[i]
         IN CASE p.tag = "Id" -> {p.v}
              [] p.tag = "PropHdr" -> {p.key}
              [] p.tag = "Struct" -> OutIds(p.ch)
              [] p.tag = "Object" -> {p.type, p.id} \cup OutIds(p.ch)
              [] p.tag = "Choice" -> IF p.child = "Id" THEN Range(p.vals) ELSE {}
              [] OTHER -> {}
         : i \in DOMAIN items}

RECURSIVE HasBadProp(_)
\* The legacy tree holds a Prop whose Id value header has no room for an
\* identifier (spa_pod_get_id fails on it).
HasBadProp(p) ==
  CASE p.tag = "Choice" -> p.child = "Id" /\ p.csize < 4
    [] p.tag = "Struct" -> \E i \in DOMAIN p.ch : HasBadProp(p.ch[i])
    [] p.tag = "Object" -> \E i \in DOMAIN p.ch : HasBadProp(p.ch[i])
    [] OTHER -> FALSE

\* A property value seen as a Choice: a bare value is the Choice of type None
\* that holds it.
AsChoice(v) ==
  IF v.tag \in {"Id", "Int"} THEN Choice(SPA_CHOICE_None, 0, v.tag, 4, <<v.v>>) ELSE v

RECURSIVE Canon(_)
\* A current tree as the builder lays it out (each property is its two
\* words followed by its value), every property value seen as a Choice.
Canon(p) ==
  CASE p.tag = "Struct" -> Struct([i \in DOMAIN p.ch |-> Canon(p.ch[i])])
    [] p.tag = "Object" ->
         Object(p.type, p.id,
                [k \in 1..(2 * Len(p.ch)) |->
                   IF k % 2 = 1
                   THEN PropHdr(p.ch[(k + 1) \div 2].key, p.ch[(k + 1) \div 2].flags)
                   ELSE AsChoice(p.ch[k \div 2].value)])
    [] OTHER -> p

RECURSIVE CanonOut(_)
\* The same view of a tree a walker built: the item after a property's two
\* words is its value.
CanonOut(p) ==
  CASE p.tag = "Struct" -> Struct([i \in DOMAIN p.ch |-> CanonOut(p.ch[i])])
    [] p.tag = "Object" ->
         Object(p.type, p.id,
                [k \in DOMAIN p.ch |->
                   IF k > 1 /\ p.ch[k - 1].tag = "PropHdr"
                   THEN AsChoice(p.ch[k]) ELSE CanonOut(p.ch[k])])
    [] OTHER -> p

(***************************************************************************)
(* C1                                                                      *)
(***************************************************************************)
\* C1: for a current tree whose identifiers all have a row, and a client
\* whose map sends slot i to row i, remapping the tree to the legacy
\* vocabulary and the result back gives the tree again, up to a bare property
\* value standing for the Choice of type None that holds it.
C1_RoundTrip ==
  (/\ last.op = "pod_to_v2"
   /\ last.pod # NullPod
   /\ IdentityMap(types)
   /\ \A id \in V2Ids(last.pod) : HasRow(id))
  => /\ last.ret = 0
     /\ Len(last.out) = 1
     /\ LET back == remap_from_v2(types, last.out[1])
        IN /\ back.res = 0
           /\ Len(back.out) = 1
           /\ CanonOut(back.out[1]) = Canon(last.pod)

(***************************************************************************)
(* C2                                                                      *)
(***************************************************************************)
\* C2: translating a legacy slot returns the current identifier of the row
\* the client's map holds for the slot, and INVALID when the slot is absent
\* from the map or the stored index is no row of the table.
C2_TypeFromV2 ==
  last.op = "type_from_v2"
  => IF last.type \in DOMAIN types /\ types[last.type] \in Rows
     THEN last.ret = type_map[types[last.type] + 1].id
     ELSE last.ret = SPA_ID_INVALID

\* A slot the client announced under the name of another row is translated
\* through that row: slot 2 announced as Format.
C2_Witness ==
  /\ last.op = "type_from_v2"
  /\ last.type = 2
  /\ 2 \in DOMAIN types
  /\ types[2] = 1
  /\ last.ret = SPA_TYPE_OBJECT_Format

(***************************************************************************)
(* C3                                                                      *)
(***************************************************************************)
\* C3 as stated: translating a current identifier returns the index of a row
\* that carries it, that index is the slot the peer uses for the identifier
\* (the peer's slot of that number, when it announced one, stands for the
\* identifier), and the result is INVALID when no row carries it.
C3_Original ==
  last.op = "type_to_v2"
  => /\ last.ret # SPA_ID_INVALID
        => /\ last.ret \in Rows
           /\ Row(last.ret).id = last.type
           /\ last.ret \in DOMAIN types
                => pw_protocol_native0_type_from_v2(types, last.ret) = last.type
     /\ ~HasRow(last.type) => last.ret = SPA_ID_INVALID

\* C3 as amended: translating a current identifier returns the index of the
\* first row of the global table that has a current name and carries the
\* identifier (this side's own row index, whatever the client's map holds),
\* and INVALID when no row carries the identifier.
C3_TypeToV2 ==
  last.op = "type_to_v2"
  => /\ last.ret # SPA_ID_INVALID
        => /\ last.ret \in Rows
           /\ Row(last.ret).id = last.type
           /\ Row(last.ret).name # NoName
           /\ \A j \in 0..(last.ret - 1) :
                Row(j).id # last.type \/ Row(j).name = NoName
     /\ (\E r \in Rows : Row(r).id = last.type /\ Row(r).name # NoName)
        => last.ret # SPA_ID_INVALID
     /\ ~HasRow(last.type) => last.ret = SPA_ID_INVALID

\* Props is translated to row 2 although the peer announced its slot 2 as
\* Format.
C3_Witness ==
  /\ last.op = "type_to_v2"
  /\ last.type = SPA_TYPE_OBJECT_Props
  /\ last.ret = 2
  /\ 2 \in DOMAIN types
  /\ types[2] = 1

C6_Original == [][initialised => types' = types]_vars

\* C6 as amended: the only message that changes a slot of the client's map
\* is an UpdateTypes message that parses (before and after the first one);
\* every other message leaves every slot as it was.
C6_OnlyUpdateTypes ==
  [][types' # types => (last'.op = "update_types" /\ last'.res = 0)]_vars

\* A further UpdateTypes message has changed a map that held slots already.
C6_Witness ==
  /\ initialised
  /\ last.op = "update_types"
  /\ last.before # EmptyMap
  /\ types # last.before

(***************************************************************************)
(* C7                                                                      *)
(***************************************************************************)
\* The legacy slot has no current identifier for this client.
Untranslatable(slot) == pw_protocol_native0_type_from_v2(types, slot) = SPA_ID_INVALID

PlainValues(seq) == {c \in Range(seq) : c.tag = "Int"}

\* C8: in both remap directions a value whose tag is none of Id, Object,
\* Prop/Choice or Struct is copied into the output unchanged, at top level
\* and as a child of a Struct.
C8_CopiedUnchanged ==
  /\ (last.op = "pod_from_v2" /\ last.pod.tag = "Int")
     => last.out = <<last.pod>> /\ last.ret = last.pod
  /\ (last.op = "pod_from_v2" /\ last.pod.tag = "Struct" /\ last.res = 0)
     => PlainValues(last.pod.ch) \subseteq Range(last.ret.ch)
  /\ (last.op = "pod_to_v2" /\ last.pod.tag = "Int")
     => last.out = <<last.pod>>
  /\ (last.op = "pod_to_v2" /\ last.pod.tag = "Struct" /\ last.ret = 0)
     => PlainValues(last.pod.ch) \subseteq Range(last.out[1].ch)

(***************************************************************************)
(* C9                                                                      *)
(***************************************************************************)
\* The values among the items a walker appended: a property header and the
\* value that follows it are one property.
Values(items) == SelectSeq(items, LAMBDA c : c.tag # "PropHdr")

\* C9: for a Struct in the input of a remap, the output Struct has one child
\* per input child, each the image of the input child at its place.
C9_OnePerChild ==
  /\ (last.op = "pod_from_v2" /\ last.pod.tag = "Struct" /\ last.res = 0)
     => /\ Len(Values(last.ret.ch)) = Len(last.pod.ch)
        /\ \A i \in DOMAIN last.pod.ch :
             Values(remap_from_v2(types, last.pod.ch[i]).out) = <<Values(last.ret.ch)[i]>>
  /\ (last.op = "pod_to_v2" /\ last.pod.tag = "Struct" /\ last.ret = 0)
     => /\ Len(Values(last.out[1].ch)) = Len(last.pod.ch)
        /\ \A i \in DOMAIN last.pod.ch :
             Values(remap_to_v2(last.pod.ch[i]).out) = <<Values(last.out[1].ch)[i]>>

(***************************************************************************)
(* C10                                                                     *)
(***************************************************************************)
\* The places of the Id children of ch, in order.
IdPlaces(ch) == {i \in DOMAIN ch : spa_pod_is_id(ch[i])}
\* The k-th smallest element of a set of places (k = 1, 2).
First(S) == CHOOSE i \in S : \A j \in S : i <= j
Second(S) == First(S \ {First(S)})

\* The media properties written for the first two Id children of ch.
MediaProps(map, ch) ==
  LET S == IdPlaces(ch)
  IN (IF Cardinality(S) >= 1
      THEN <<PropHdr(SPA_FORMAT_mediaType, 0),
             Id(pw_protocol_native0_type_from_v2(map, ch[First(S)].v))>>
      ELSE <<>>) \o
     (IF Cardinality(S) >= 2
      THEN <<PropHdr(SPA_FORMAT_mediaSubtype, 0),
             Id(pw_protocol_native0_type_from_v2(map, ch[Second(S)].v))>>
      ELSE <<>>)

RECURSIVE GeneralRules(_, _, _)
\* The children of ch at the places of `keep`, from place i on, each
\* remapped as remap_from_v2 remaps it.
GeneralRules(map, ch, keep) ==
  IF keep = {}
  THEN <<>>
  ELSE remap_from_v2(map, ch[First(keep)]).out \o GeneralRules(map, ch, keep \ {First(keep)})

\* A legacy object that translates to a Format object has been remapped.
FormatRemapped ==
  /\ last.op = "pod_from_v2"
  /\ last.pod.tag = "Object"
  /\ last.res = 0
  /\ pw_protocol_native0_type_from_v2(types, last.pod.id) = SPA_TYPE_OBJECT_Format

\* C10 as stated: remapping a legacy Format object turns its first two Id
\* children into the properties mediaType and mediaSubtype, in that order,
\* each holding the translated Id; every other child is remapped by the
\* general rules.
C10_Original ==
  FormatRemapped
  => LET ch == last.pod.ch
         S == IdPlaces(ch)
         media == IF Cardinality(S) >= 2 THEN {First(S), Second(S)} ELSE S
     IN last.ret.ch = MediaProps(types, ch) \o GeneralRules(types, ch, DOMAIN ch \ media)

\* C10 as amended: remapping a legacy Format object turns its first two Id
\* children into the properties mediaType and mediaSubtype, in that order,
\* each holding the translated Id; a child that is not an Id and comes before
\* the second Id is left out; every child after the second Id is remapped by
\* the general rules.
C10_FormatMedia ==
  FormatRemapped
  => LET ch == last.pod.ch
         S == IdPlaces(ch)
         after == IF Cardinality(S) >= 2 THEN {i \in DOMAIN ch : i > Second(S)} ELSE {}
     IN last.ret.ch = MediaProps(types, ch) \o GeneralRules(types, ch, after)

\* A Format object with a property between its two Ids and a third Id has
\* been remapped: both media properties are there, the third Id follows.
C10_Witness ==
  /\ FormatRemapped
  /\ IdentityMap(types)
  /\ Len(last.pod.ch) = 3
  /\ IdPlaces(last.pod.ch) = {1, 2, 3}
  /\ last.ret.ch = <<PropHdr(SPA_FORMAT_mediaType, 0), Id(Row(last.pod.ch[1].v).id),
                     PropHdr(SPA_FORMAT_mediaSubtype, 0), Id(Row(last.pod.ch[2].v).id),
                     Id(Row(last.pod.ch[3].v).id)>>

(***************************************************************************)
(* C11                                                                     *)
(***************************************************************************)
\* What the client's map makes of a legacy slot: the identifier of the row
\* stored for it, INVALID without a stored row.
Translated(slot) ==
  IF slot \in DOMAIN types /\ types[slot] \in Rows
  THEN Row(types[slot]).id
  ELSE SPA_ID_INVALID

\* The Objects of a legacy tree, at any depth.
RECURSIVE ObjectsOf(_)
ObjectsOf(p) ==
  CASE p.tag = "Object" -> {p} \cup UNION {ObjectsOf(p.ch[i]) : i \in DOMAIN p.ch}
    [] p.tag = "Struct" -> UNION {ObjectsOf(p.ch[i]) : i \in DOMAIN p.ch}
    [] OTHER -> {}

\* C11: remapping a legacy Object gives an Object whose type is the
\* translation of the legacy id word and whose id is the translation of the
\* legacy type word, both through the client's map; this holds at top level
\* and for an Object inside a Struct.
C11_ObjectSwap ==
  (last.op = "pod_from_v2" /\ last.pod # NullPod /\ last.res = 0)
  => /\ last.pod.tag = "Object"
        => /\ last.ret.tag = "Object"
           /\ last.ret.type = Translated(last.pod.id)
           /\ last.ret.id = Translated(last.pod.type)
     /\ \A o \in ObjectsOf(last.pod) :
          \E r \in UNION {ObjectsOf(last.out[i]) : i \in DOMAIN last.out} :
            r.type = Translated(o.id) /\ r.id = Translated(o.type)

\* A client that announced the whole table sends Object(type 3, id 1): the
\* result is a Format object (row 1) with id EnumFormat (row 3).
C11_Witness ==
  /\ IdentityMap(types)
  /\ last.op = "pod_from_v2"
  /\ last.pod.tag = "Object"
  /\ last.pod.type = 3
  /\ last.pod.id = 1
  /\ last.ret.tag = "Object"
  /\ last.ret.type = SPA_TYPE_OBJECT_Format
  /\ last.ret.id = SPA_PARAM_EnumFormat

(***************************************************************************)
(* C12                                                                     *)
(***************************************************************************)
RECURSIVE PropsOnlyInObjects(_, _)
\* The items a walker appended as the children of an Object (inObject) are
\* properties, each its two words followed by its value; appended anywhere
\* else they hold no property words; and so on down the tree.
PropsOnlyInObjects(items, inObject) ==
  /\ inObject => Len(items) % 2 = 0
  /\ \A k \in DOMAIN items :
       /\ (items[k].tag = "PropHdr") = (inObject /\ k % 2 = 1)
       /\ items[k].tag = "Object" => PropsOnlyInObjects(items[k].ch, TRUE)
       /\ items[k].tag = "Struct" => PropsOnlyInObjects(items[k].ch, FALSE)

\* C12: in every tree the legacy-to-current remap produces, each child of an
\* Object is a Property and no Property appears outside an Object, also when
\* the legacy object held bare Id or Struct children or a legacy Prop sat in
\* a Struct.
C12_PropsOnlyInObjects ==
  (/\ last.op = "pod_from_v2"
   /\ last.pod.tag \in {"Object", "Struct"}
   /\ last.res = 0)
  => PropsOnlyInObjects(last.out, FALSE)

(***************************************************************************)
(* C13                                                                     *)
(***************************************************************************)
\* A legacy Prop has been remapped: the walker wrote the property words and
\* the Choice.
PropRemapped ==
  /\ last.op = "pod_from_v2"
  /\ last.pod.tag = "Choice"
  /\ last.res = 0

\* C13: when a legacy Prop is remapped the choice type is None, Range, Step,
\* Enum or Flags for the range bits NONE, MIN_MAX, STEP, ENUM, FLAGS, and it
\* is None whenever the UNSET flag is not set, whatever the range bits.
C13_ChoiceType ==
  PropRemapped
  => LET flags == last.pod.flags
         range == flags % 16
         unset == (flags \div 16) % 2 = 1
         choice == last.out[2].type
     IN /\ last.out[2].tag = "Choice"
        /\ ~unset => choice = SPA_CHOICE_None
        /\ (unset /\ range = SPA_POD_PROP0_RANGE_NONE) => choice = SPA_CHOICE_None
        /\ (unset /\ range = SPA_POD_PROP0_RANGE_MIN_MAX) => choice = SPA_CHOICE_Range
        /\ (unset /\ range = SPA_POD_PROP0_RANGE_STEP) => choice = SPA_CHOICE_Step
        /\ (unset /\ range = SPA_POD_PROP0_RANGE_ENUM) => choice = SPA_CHOICE_Enum
        /\ (unset /\ range = SPA_POD_PROP0_RANGE_FLAGS) => choice = SPA_CHOICE_Flags

\* A Prop that declares a STEP range without UNSET has come out as a Choice
\* of type None.
C13_Witness ==
  /\ PropRemapped
  /\ last.pod.flags = SPA_POD_PROP0_RANGE_STEP
  /\ last.out[2].tag = "Choice"
  /\ last.out[2].type = SPA_CHOICE_None

(***************************************************************************)
(* C14                                                                     *)
(***************************************************************************)
\* C14: when a legacy Prop is remapped the output is a Property keyed by the
\* translated key that wraps a Choice whose elements are the legacy default
\* followed by the legacy alternatives, same count and same order; when the
\* value type is Id every element is translated through the client's map.
C14_PropertyChoice ==
  PropRemapped
  => /\ Len(last.out) = 2
     /\ last.out[1] = PropHdr(Translated(last.pod.type), 0)
     /\ last.out[2].tag = "Choice"
     /\ last.out[2].child = last.pod.child
     /\ Len(last.out[2].vals) = Len(last.pod.vals)
     /\ \A i \in DOMAIN last.pod.vals :
          last.out[2].vals[i] = IF last.pod.child = "Id"
                                THEN Translated(last.pod.vals[i])
                                ELSE last.pod.vals[i]

\* A client that announced the whole table sends the Prop of key 6 with the
\* Ids 4 and 2: the Property is keyed by the rate and its Choice holds the
\* identifiers of rows 4 and 2, in that order.
C14_Witness ==
  /\ PropRemapped
  /\ IdentityMap(types)
  /\ last.pod = P0_enum
  /\ last.out[1] = PropHdr(SPA_FORMAT_AUDIO_rate, 0)
  /\ last.out[2].vals = <<SPA_MEDIA_TYPE_audio, SPA_TYPE_OBJECT_Props>>

(***************************************************************************)
(* C15                                                                     *)
(***************************************************************************)
RECURSIVE ChoicesOf(_)
\* The Choices among the items a walker appended, at any depth.
ChoicesOf(items) ==
  UNION {LET p == items[i]
         IN CASE p.tag = "Choice" -> {p}
              [] p.tag \in {"Struct", "Object"} -> ChoicesOf(p.ch)
              [] OTHER -> {}
         : i \in DOMAIN items}

\* C15: every Choice of type None in a tree the legacy-to-current remap
\* produces holds exactly one element, also when the legacy Prop carried
\* alternatives and was downgraded to None because its UNSET flag was absent.
C15_NoneHasOneElement ==
  (last.op = "pod_from_v2" /\ last.pod # NullPod /\ last.res = 0)
  => \A c \in ChoicesOf(last.out) :
       c.type = SPA_CHOICE_None => Len(c.vals) = 1

(***************************************************************************)
(* C16                                                                     *)
(***************************************************************************)
\* A current Props object has been remapped to the legacy vocabulary: each
\* property wrote one child, in order.
PropsToV0 ==
  /\ last.op = "pod_to_v2"
  /\ last.pod.tag = "Object"
  /\ last.pod.type = SPA_TYPE_OBJECT_Props
  /\ last.ret = 0

\* The value of a property is bare or a Choice of type None.
IsPlain(value) == value.tag # "Choice" \/ value.type = SPA_CHOICE_None

\* The one value a plain property value holds, as the legacy side names it.
PlainV0(value) ==
  LET v == IF value.tag = "Choice" THEN value.vals[1] ELSE value.v
      child == IF value.tag = "Choice" THEN value.child ELSE value.tag
  IN IF child = "Id"
     THEN Id(IF \E r \in Rows : Row(r).id = v /\ Row(r).name # NoName
             THEN CHOOSE r \in Rows : Row(r).id = v /\ Row(r).name # NoName
             ELSE SPA_ID_INVALID)
     ELSE Int32(v)

\* C16 as stated: when a current Object is remapped to the legacy
\* vocabulary, a property whose value is a bare value or a Choice of type
\* None is emitted as a bare value and not as a Prop.
C16_Original ==
  PropsToV0
  => \A i \in DOMAIN last.pod.ch :
       IsPlain(last.pod.ch[i].value)
       => last.out[1].ch[i] = PlainV0(last.pod.ch[i].value)

\* C16 as amended: such a property is emitted as a Prop like any other: keyed
\* by the translated key, with flags that carry no range bits and no UNSET,
\* holding the one value (translated when it is an Id).
C16_PlainIsProp ==
  PropsToV0
  => /\ Len(last.out[1].ch) = Len(last.pod.ch)
     /\ \A i \in DOMAIN last.pod.ch :
          IsPlain(last.pod.ch[i].value)
          => LET o == last.out[1].ch[i]
                 v == PlainV0(last.pod.ch[i].value)
             IN /\ o.tag = "Choice"
                /\ o.flags = 0
                /\ o.child = v.tag
                /\ o.vals = <<v.v>>
                /\ \A r \in Rows :
                     (Row(r).id = last.pod.ch[i].key /\ Row(r).name # NoName) => o.type = r

\* The rate given as a bare Int has come out as a Prop of key 6 without
\* flags.
C16_Witness ==
  /\ PropsToV0
  /\ \E i \in DOMAIN last.pod.ch :
       /\ last.pod.ch[i].value = Int32(44100)
       /\ last.out[1].ch[i] = Choice(6, 0, "Int", 4, <<44100>>)

(***************************************************************************)
(* C17                                                                     *)
(***************************************************************************)
\* The key of one of the two media properties of a Format object.
IsMediaKey(key) == key \in {SPA_FORMAT_mediaType, SPA_FORMAT_mediaSubtype}

\* A current Format object whose media properties hold Ids has been remapped
\* to the legacy vocabulary.
FormatToV0 ==
  /\ last.op = "pod_to_v2"
  /\ last.pod.tag = "Object"
  /\ last.pod.type = SPA_TYPE_OBJECT_Format
  /\ last.ret = 0
  /\ \A i \in DOMAIN last.pod.ch :
       IsMediaKey(last.pod.ch[i].key) => last.pod.ch[i].value.tag = "Id"

RowOf(id) ==
  IF \E r \in Rows : Row(r).id = id /\ Row(r).name # NoName
  THEN CHOOSE r \in Rows :
         /\ Row(r).id = id /\ Row(r).name # NoName
         /\ \A q \in 0..(r - 1) : ~(Row(q).id = id /\ Row(q).name # NoName)
  ELSE SPA_ID_INVALID

\* C18: when a current Command object (SPA_TYPE_COMMAND_Node) is remapped to
\* the legacy vocabulary the emitted object has type 0 and as id the row of
\* the command; every other object gets both words translated and switched.
C18_Command ==
  (last.op = "pod_to_v2" /\ last.pod.tag = "Object" /\ last.ret = 0)
  => /\ Len(last.out) = 1
     /\ last.out[1].tag = "Object"
     /\ IF last.pod.type = SPA_TYPE_COMMAND_Node
        THEN /\ last.out[1].type = 0
             /\ last.out[1].id = RowOf(last.pod.id)
        ELSE /\ last.out[1].type = RowOf(last.pod.id)
             /\ last.out[1].id = RowOf(last.pod.type)

\* The Pause command has come out as the object of type 0 and id 7.
C18_Witness ==
  /\ last.op = "pod_to_v2"
  /\ last.pod = Object(SPA_TYPE_COMMAND_Node, SPA_NODE_COMMAND_Pause, <<>>)
  /\ last.out = <<Object(0, 7, <<>>)>>

(***************************************************************************)
(* C19                                                                     *)
(***************************************************************************)
\* The choice type of a property value: a bare value counts as None.
ChoiceTypeOf(value) == IF value.tag = "Choice" THEN value.type ELSE SPA_CHOICE_None

\* C19: when a current property is remapped to the legacy vocabulary the
\* legacy flags carry the range bits of the choice type (Range: MIN_MAX,
\* Step: STEP, Enum: ENUM, Flags: FLAGS) together with UNSET, and neither
\* range bits nor UNSET when the choice type is None.
C19_Flags ==
  PropsToV0
  => /\ Len(last.out[1].ch) = Len(last.pod.ch)
     /\ \A i \in DOMAIN last.pod.ch :
          LET choice == ChoiceTypeOf(last.pod.ch[i].value)
              flags == last.out[1].ch[i].flags
          IN /\ choice = SPA_CHOICE_None => flags = 0
             /\ choice = SPA_CHOICE_Range => flags = 1 + 16
             /\ choice = SPA_CHOICE_Step => flags = 2 + 16
             /\ choice = SPA_CHOICE_Enum => flags = 3 + 16
             /\ choice = SPA_CHOICE_Flags => flags = 4 + 16

\* A property that is a Choice of type Step has come out with the flags
\* STEP | UNSET and its three values.
C19_Witness ==
  /\ PropsToV0
  /\ Len(last.pod.ch) = 1
  /\ ChoiceTypeOf(last.pod.ch[1].value) = SPA_CHOICE_Step
  /\ last.out[1].ch = <<Choice(6, SPA_POD_PROP0_RANGE_STEP + SPA_POD_PROP0_FLAG_UNSET,
                               "Int", 4, <<1, 2, 3>>)>>

(***************************************************************************)
(* C20                                                                     *)
(***************************************************************************)
\* C20: neither remap direction changes its input tree: when
\* pw_protocol_native0_pod_from_v2 or pw_protocol_native0_pod_to_v2 returns,
\* with success or failure, the input is what it was at the call, and the
\* result lies in a block other than the input's.
C20_InputUntouched ==
  last.op \in {"pod_from_v2", "pod_to_v2"}
  => /\ last.mem["input"] = <<last.pod>>
     /\ last.at # "input"
     /\ (last.op = "pod_from_v2" /\ last.ret # NullPod) => last.mem[last.at] = <<last.ret>>
     /\ last.op = "pod_to_v2" => last.mem[last.at] = last.out

\* A Struct of slots has been translated: the result, in the allocated
\* block, differs from the input, which still holds the slots.
C20_Witness ==
  /\ last.op = "pod_from_v2"
  /\ last.pod.tag = "Struct"
  /\ last.pod.ch # <<>>
  /\ last.res = 0
  /\ last.at = "heap"
  /\ last.mem["heap"] = <<last.ret>>
  /\ last.ret # last.pod
  /\ last.mem["input"] = <<last.pod>>

(***************************************************************************)
(* The POD test program (main): an Object built by pushing properties,     *)
(* then a lookup by key                                                    *)
(*                                                                         *)
(* obj is the object in the 1024-byte buffer: the properties pushed so     *)
(* far, in the order of the pushes, the body size its header declares      *)
(* (written when frame[0] is popped, 0 until then) and whether frame[0]    *)
(* is still open.  A property is written at the offset where the one       *)
(* before it ends; a reader walks the body by these offsets.               *)
(***************************************************************************)
MaxProps == 3

\* The keys main pushes (1, 2, 3, 4) and the two value shapes kept here: a
\* single Int (key 2) and an Int with two alternatives (key 1).
PropKeys == 1..4
PropKinds == {"int", "enum_int"}

\* The bytes one property takes in the body, rounded up to 8: the POD header
\* (8), key and flags (8), the value header (8), and 4 bytes per Int.
PropSize(kind) == IF kind = "int" THEN 32 ELSE 40

RECURSIVE PropOffset(_, _)
\* Where the i-th pushed property starts inside the body.
PropOffset(props, i) ==
  IF i = 1 THEN 0 ELSE PropOffset(props, i - 1) + PropSize(props[i - 1].kind)

\* spa_pod_builder_push_prop, the values, and spa_pod_builder_pop of frame[1].
spa_pod_builder_push_prop(o, key, kind) ==
  [o EXCEPT !.props = Append(@, [key |-> key, kind |-> kind])]

\* spa_pod_builder_pop of frame[0]: the header receives the size of all that
\* was written inside the frame.
spa_pod_builder_pop(o) ==
  [o EXCEPT !.size = PropOffset(o.props, Len(o.props) + 1), !.open = FALSE]

RECURSIVE foreach_from(_, _)
\* SPA_POD_OBJECT_FOREACH: the offsets the iteration visits, in order; it
\* stops at the end of the declared body.
foreach_from(o, i) ==
  IF i > Len(o.props) \/ PropOffset(o.props, i) >= o.size
  THEN <<>>
  ELSE <<PropOffset(o.props, i)>> \o foreach_from(o, i + 1)

SPA_POD_OBJECT_FOREACH(o) == foreach_from(o, 1)

\* The key of the property that starts at offset off.
KeyAt(o, off) ==
  LET i == CHOOSE j \in 1..Len(o.props) : PropOffset(o.props, j) = off
  IN o.props[i].key

\* spa_pod_object_find_prop: the offset of the first visited property with
\* the key, SPA_ID_INVALID standing for NULL.
spa_pod_object_find_prop(o, key) ==
  LET it == SPA_POD_OBJECT_FOREACH(o)
      hits == {j \in DOMAIN it : KeyAt(o, it[j]) = key}
  IN IF hits = {} THEN SPA_ID_INVALID
     ELSE it[CHOOSE j \in hits : \A k \in hits : j <= k]

\* main pushes one more property.
PushProp ==
  /\ obj.open
  /\ Len(obj.props) < MaxProps
  /\ \E key \in PropKeys, kind \in PropKinds :
       obj' = spa_pod_builder_push_prop(obj, key, kind)
  /\ UNCHANGED <<found, protocol_vars, proxy_vars, rest_vars>>

\* main pops frame[0] one property too early: the last property is pushed
\* after the pop, behind the body the header declares.
PopObject_early ==
  /\ obj.open
  /\ Len(obj.props) > 0
  /\ Len(obj.props) < MaxProps
  /\ \E key \in PropKeys, kind \in PropKinds :
       obj' = spa_pod_builder_push_prop(spa_pod_builder_pop(obj), key, kind)
  /\ UNCHANGED <<found, protocol_vars, proxy_vars, rest_vars>>

\* main pops frame[0]: the object is complete.
PopObject ==
  /\ obj.open
  /\ Len(obj.props) > 0
  /\ obj' = spa_pod_builder_pop(obj)
  /\ UNCHANGED <<found, protocol_vars, proxy_vars, rest_vars>>

\* main looks a key up in the finished object.
FindProp ==
  /\ ~obj.open
  /\ found.op = "none"
  /\ \E key \in PropKeys :
       found' = [op |-> "find", key |-> key, ret |-> spa_pod_object_find_prop(obj, key)]
  /\ UNCHANGED <<obj, protocol_vars, proxy_vars, rest_vars>>

\* main returns; the next run starts from an empty buffer.
ExitMain ==
  /\ found.op = "find"
  /\ obj' = [props |-> <<>>, size |-> 0, open |-> TRUE]
  /\ found' = [op |-> "none"]
  /\ UNCHANGED <<protocol_vars, proxy_vars, rest_vars>>

NextPod == PushProp \/ PopObject \/ FindProp \/ ExitMain

SpecPod == Init /\ [][NextPod]_vars

(***************************************************************************)
(* C21                                                                     *)
(***************************************************************************)
\* The positions, in push order, of the properties of obj whose key is key.
Keyed(key) == {i \in 1..Len(obj.props) : obj.props[i].key = key}

\* C21: on an object built by pushing properties, find_prop with key K
\* returns the first pushed property whose key is K (NULL when there is
\* none), and the iteration over the object's properties visits the place
\* it returns exactly once.
C21_FindFirst ==
  found.op = "find" =>
    LET hits == Keyed(found.key)
        it == SPA_POD_OBJECT_FOREACH(obj)
    IN IF hits = {}
       THEN found.ret = SPA_ID_INVALID
       ELSE /\ \E i \in hits :
                 /\ \A k \in hits : i <= k
                 /\ found.ret = PropOffset(obj.props, i)
            /\ Cardinality({j \in DOMAIN it : it[j] = found.ret}) = 1

\* A lookup of a key pushed twice, after a property with another key.
C21_Witness ==
  /\ found.op = "find"
  /\ Cardinality(Keyed(found.key)) = 2
  /\ 1 \notin Keyed(found.key)
  /\ found.ret = PropOffset(obj.props, 2)

(***************************************************************************)
(* Client proxies (src/pipewire/proxy.c)                                   *)
(*                                                                         *)
(* remote.objects maps the ids of the client id space to proxy handles,    *)
(* remote.core_proxy tells whether the remote has a core proxy.            *)
(* proxies[h] is the memory block h: FreeProxy when it holds no proxy.     *)
(***************************************************************************)
\* The interface types the protocol has a marshal for, and one it has not.
Marshals == {"Node", "Device"}
ProxyTypes == Marshals \cup {"Unknown"}

pw_protocol_get_marshal(type) == type \in Marshals

\* pw_map_insert_new: the item goes to a free id; SPA_ID_INVALID with errno
\* set when the map cannot grow.
pw_map_insert_new(map, data, grow_ok) ==
  LET free == {i \in 0..(MaxProxies - 1) : i \notin DOMAIN map}
      id == CHOOSE i \in free : \A j \in free : i <= j
  IN IF free = {} \/ ~grow_ok
     THEN [id |-> SPA_ID_INVALID, map |-> map, errno |-> ENOMEM]
     ELSE [id |-> id, map |-> pw_map_insert_at(map, id, data), errno |-> 0]

pw_map_remove(map, id) == [i \in DOMAIN map \ {id} |-> map[i]]

\* pw_proxy_new that takes the id before it looks for the marshal.
pw_proxy_new_insert_first(rem, h, type, calloc_ok, grow_ok) ==
  LET ins == pw_map_insert_new(rem.objects, h, grow_ok)
  IN IF ~calloc_ok
     THEN [ret |-> NULL, errno |-> ENOMEM, objects |-> rem.objects, proxy |-> FreeProxy]
     ELSE IF ins.id = SPA_ID_INVALID
     THEN [ret |-> NULL, errno |-> ins.errno, objects |-> rem.objects, proxy |-> FreeProxy]
     ELSE IF ~pw_protocol_get_marshal(type)
     THEN [ret |-> NULL, errno |-> EPROTO, objects |-> ins.map, proxy |-> FreeProxy]
     ELSE [ret |-> h, errno |-> 0, objects |-> ins.map,
           proxy |-> [FreeProxy EXCEPT !.alloc = TRUE, !.id = ins.id, !.refcount = 1]]

\* pw_proxy_new, h being the block calloc returns.  The result is the
\* returned pointer, errno (0: not set), the remote's map and the block.
pw_proxy_new(rem, h, type, calloc_ok, grow_ok) ==
  LET ins == pw_map_insert_new(rem.objects, h, grow_ok)
  IN IF ~calloc_ok
     THEN [ret |-> NULL, errno |-> ENOMEM, objects |-> rem.objects, proxy |-> FreeProxy]
     ELSE IF ~pw_protocol_get_marshal(type)
     THEN [ret |-> NULL, errno |-> EPROTO, objects |-> rem.objects, proxy |-> FreeProxy]
     ELSE IF ins.id = SPA_ID_INVALID
     THEN [ret |-> NULL, errno |-> ins.errno, objects |-> rem.objects, proxy |-> FreeProxy]
     ELSE [ret |-> h, errno |-> 0, objects |-> ins.map,
           proxy |-> [FreeProxy EXCEPT !.alloc = TRUE, !.id = ins.id, !.refcount = 1]]

\* pw_proxy_unref: the block is freed when the count reaches 0.
pw_proxy_unref(px) ==
  IF px.refcount - 1 > 0 THEN [px EXCEPT !.refcount = @ - 1] ELSE FreeProxy

\* pw_proxy_destroy on the proxy px.  left is the proxy as the call leaves it
\* before the unref, proxy the block after the call.
pw_proxy_destroy(rem, px) ==
  LET a == IF ~px.zombie
           THEN [px EXCEPT !.calls = @ + 1, !.emitted = @ + 1]
           ELSE [px EXCEPT !.calls = @ + 1]
      b == IF a.removed THEN a
           ELSE IF rem.core_proxy
                THEN [a EXCEPT !.zombie = TRUE, !.sent = @ + 1]
                ELSE [a EXCEPT !.removed = TRUE]
  IN IF b.removed
     THEN [left |-> b, proxy |-> pw_proxy_unref(b), objects |-> pw_map_remove(rem.objects, b.id)]
     ELSE [left |-> b, proxy |-> b, objects |-> rem.objects]

Allocated == {h \in Proxies : proxies[h].alloc}

\* The remote gets its core proxy.
Connect ==
  /\ ~remote.core_proxy
  /\ remote' = [remote EXCEPT !.core_proxy = TRUE]
  /\ call' = [op |-> "connect"]
  /\ UNCHANGED <<proxies, protocol_vars, pod_vars, rest_vars>>

\* The remote loses its core proxy, once it holds no objects.
Disconnect ==
  /\ remote.core_proxy
  /\ DOMAIN remote.objects = {}
  /\ remote' = [remote EXCEPT !.core_proxy = FALSE]
  /\ call' = [op |-> "disconnect"]
  /\ UNCHANGED <<proxies, protocol_vars, pod_vars, rest_vars>>

\* The user calls pw_proxy_new.
ProxyNew ==
  /\ Proxies \ Allocated # {}
  /\ \E type \in ProxyTypes, calloc_ok \in BOOLEAN, grow_ok \in BOOLEAN :
       LET h == CHOOSE x \in Proxies \ Allocated : \A y \in Proxies \ Allocated : x <= y
           r == pw_proxy_new(remote, h, type, calloc_ok, grow_ok)
       IN /\ remote' = [remote EXCEPT !.objects = r.objects]
          /\ proxies' = [proxies EXCEPT ![h] = r.proxy]
          /\ call' = [op |-> "new", type |-> type, ret |-> r.ret, errno |-> r.errno,
                      before |-> remote.objects]
  /\ UNCHANGED <<protocol_vars, pod_vars, rest_vars>>

\* Another holder takes a reference on a proxy.
ProxyRef ==
  /\ \E h \in Allocated :
       /\ proxies[h].held < MaxHolders
       /\ proxies' = [proxies EXCEPT ![h].refcount = @ + 1, ![h].held = @ + 1]
       /\ call' = [op |-> "ref", proxy |-> h]
  /\ UNCHANGED <<remote, protocol_vars, pod_vars, rest_vars>>

\* A holder gives its reference back: pw_proxy_unref.
ProxyUnref ==
  /\ \E h \in Allocated :
       /\ proxies[h].held > 0
       /\ proxies' = [proxies EXCEPT ![h] =
                        LET u == pw_proxy_unref(proxies[h])
                        IN IF u.alloc THEN [u EXCEPT !.held = @ - 1] ELSE u]
       /\ call' = [op |-> "unref", proxy |-> h]
  /\ UNCHANGED <<remote, protocol_vars, pod_vars, rest_vars>>

\* The user calls pw_proxy_destroy on an allocated proxy.
ProxyDestroy ==
  /\ \E h \in Allocated :
       /\ proxies[h].calls < MaxDestroys
       /\ LET r == pw_proxy_destroy(remote, proxies[h])
          IN /\ remote' = [remote EXCEPT !.objects = r.objects]
             /\ proxies' = [proxies EXCEPT ![h] = r.proxy]
             /\ call' = [op |-> "destroy", proxy |-> h, core_proxy |-> remote.core_proxy,
                         before |-> proxies[h], left |-> r.left,
                         objects |-> remote.objects]
  /\ UNCHANGED <<protocol_vars, pod_vars, rest_vars>>

\* The server removes an id: the remote marks the proxy removed and
\* destroys it.
ServerRemove ==
  /\ remote.core_proxy
  /\ \E id \in DOMAIN remote.objects :
       LET h == remote.objects[id]
           r == pw_proxy_destroy(remote, [proxies[h] EXCEPT !.removed = TRUE])
       IN /\ proxies[h].alloc
          /\ remote' = [remote EXCEPT !.objects = r.objects]
          /\ proxies' = [proxies EXCEPT ![h] = r.proxy]
          /\ call' = [op |-> "remove_id", proxy |-> h, id |-> id]
  /\ UNCHANGED <<protocol_vars, pod_vars, rest_vars>>

NextProxy == Connect \/ Disconnect \/ ProxyNew \/ ProxyRef \/ ProxyUnref \/ ProxyDestroy \/ ServerRemove

SpecProxy == Init /\ [][NextProxy]_vars

(***************************************************************************)
(* C22                                                                     *)
(***************************************************************************)
\* C22: pw_proxy_new either returns a proxy whose reference count is 1 and
\* which the remote's map holds under an id that was free before the call
\* (the rest of the map as before), or it returns NULL, and then the map is
\* as before the call and errno holds the error: EPROTO only when there is
\* no marshal for the type.
C22_NewOrNull ==
  call.op = "new" =>
    IF call.ret # NULL
    THEN /\ proxies[call.ret].alloc
         /\ proxies[call.ret].refcount = 1
         /\ proxies[call.ret].id \notin DOMAIN call.before
         /\ DOMAIN remote.objects = DOMAIN call.before \cup {proxies[call.ret].id}
         /\ remote.objects[proxies[call.ret].id] = call.ret
         /\ \A i \in DOMAIN call.before : remote.objects[i] = call.before[i]
    ELSE /\ remote.objects = call.before
         /\ call.errno \in {EPROTO, ENOMEM}
         /\ (call.errno = EPROTO) => ~pw_protocol_get_marshal(call.type)
         /\ ~pw_protocol_get_marshal(call.type) => call.errno # 0

\* A second pw_proxy_new fails for want of a marshal while the map holds the
\* first proxy.
C22_Witness ==
  /\ call.op = "new"
  /\ call.ret = NULL
  /\ call.errno = EPROTO
  /\ call.before # EmptyMap

(***************************************************************************)
(* C23                                                                     *)
(***************************************************************************)
\* C23: when pw_proxy_destroy is called on a proxy the server has not
\* removed, the call takes the proxy out of the remote's map and sends a
\* destroy request for the server-side object.
C23_RemovedAndScheduled ==
  (call.op = "destroy" /\ ~call.before.removed) =>
    /\ call.before.id \notin DOMAIN remote.objects
    /\ call.left.sent = call.before.sent + 1

(***************************************************************************)
(* C27                                                                     *)
(***************************************************************************)
\* C27: over any sequence of pw_proxy_destroy calls on a proxy that is still
\* allocated, its destroy event is emitted at most once and a destroy
\* request is sent to the server at most once.
C27_AtMostOnce ==
  call.op = "destroy" =>
    /\ call.left.emitted <= 1
    /\ call.left.sent <= 1

(***************************************************************************)
(* C24                                                                     *)
(***************************************************************************)
\* The message lacks its two header fields or holds fewer names than its
\* n_types announces.
Malformed(msg) == ~msg.header \/ Len(msg.strs) < msg.n_types

\* C24: a malformed UpdateTypes message is answered with -EINVAL and leaves
\* every slot of the client's map as it was, also the slots of the names the
\* message did hold.
C24_MalformedRejected ==
  (last.op = "update_types" /\ Malformed(last.msg)) =>
    /\ last.res = -EINVAL
    /\ types = last.before

\* A message with its header and a name for a slot the map already fills
\* with another row, but fewer names than announced.
C24_Witness ==
  /\ last.op = "update_types"
  /\ last.msg.header
  /\ 0 < Len(last.msg.strs)
  /\ Len(last.msg.strs) < last.msg.n_types
  /\ last.msg.first_id \in DOMAIN last.before
  /\ last.before[last.msg.first_id] # pw_protocol_native0_find_type(last.msg.strs[1])

(***************************************************************************)
(* The bytes of the scratch buffer                                         *)
(***************************************************************************)
Pad8(n) == ((n + 7) \div 8) * 8

RECURSIVE SumSeq(_)
SumSeq(seq) == IF seq = <<>> THEN 0 ELSE Head(seq) + SumSeq(Tail(seq))

RECURSIVE Writes(_)
RECURSIVE WritesOf(_, _)
\* The sizes of the stores the builder is asked to make for one item, in
\* order: a POD header is 8 bytes, the body words of an Object or a Choice 8
\* more, an Id 4 bytes padded to 8, the values of a Choice follow its child
\* header.
Writes(item) ==
  CASE item.tag = "Id" -> <<16>>
    [] item.tag = "PropHdr" -> <<8>>
    [] item.tag = "Choice" -> <<16, Pad8(8 + Len(item.vals) * item.csize)>>
    [] item.tag = "Struct" -> <<8>> \o WritesOf(item.ch, 1)
    [] item.tag = "Object" -> <<16>> \o WritesOf(item.ch, 1)
    [] OTHER -> <<>>

WritesOf(items, i) ==
  IF i > Len(items) THEN <<>> ELSE Writes(items[i]) \o WritesOf(items, i + 1)

RECURSIVE Stored(_, _)
\* spa_pod_builder_raw over a buffer of BufferSize bytes: a store that does
\* not fit is not made, the offset advances all the same, so no later store
\* fits either.  The bytes stored, given the stores asked for from offset on.
Stored(writes, offset) ==
  IF writes = <<>> \/ offset + Head(writes) > BufferSize
  THEN 0
  ELSE Head(writes) + Stored(Tail(writes), offset + Head(writes))

\* The bytes of the scratch buffer the walker has written.
WrittenBytes(out) == Stored(WritesOf(out, 1), 0)

\* SPA_POD_SIZE of the tree spa_pod_copy reads at the start of the buffer:
\* the header and the size it declares, which the pop of the outermost frame
\* sets to all that was appended inside it, stored or not.
DeclaredSize(pod) ==
  CASE pod.tag = "Garbage" -> 8 + pod.size
    [] pod.tag = "Misread" -> 8 + pod.size
    [] OTHER -> SumSeq(Writes(pod))

(***************************************************************************)
(* C26                                                                     *)
(***************************************************************************)
\* C26: the tree pw_protocol_native0_pod_from_v2 copies out of its scratch
\* buffer lies inside the bytes written to the buffer: its declared size is
\* at most the number of bytes the walker stored, also when the remapped
\* output needs more than the capacity.
C26_InsideWritten ==
  (last.op = "pod_from_v2" /\ last.ret # NullPod) =>
    DeclaredSize(last.ret) <= WrittenBytes(last.out)

(***************************************************************************)
(* Events to a legacy client: core_marshal_info and update_types_server    *)
(*                                                                         *)
(* conn.seq is the sequence number the connection gives the next message:  *)
(* pw_protocol_native_begin_resource hands it out in msg->seq, and         *)
(* pw_protocol_native_end_resource sends the message and advances it.      *)
(* conn.sent is the list of the events sent so far.                        *)
(***************************************************************************)
MaxEvents == 6

\* pw_protocol_native_end_resource: the message is sent.
end_resource(c, event) == [seq |-> c.seq + 1, sent |-> Append(c.sent, event)]

\* update_types_server (lines 50-70).
update_types_server(c) ==
  end_resource(c, [op |-> "UPDATE_TYPES",
                   body |-> UpdateTypesMsg(TRUE, 0, N_ELEMENTS,
                                           [i \in 1..N_ELEMENTS |-> type_map[i].type])])

\* core_marshal_info that sends the types with every info.
core_marshal_info_every(c, info) ==
  end_resource(update_types_server(c), [op |-> "INFO", body |-> info])

\* core_marshal_info (lines 73-109).
core_marshal_info(c, info) ==
  LET msg == [seq |-> c.seq]
      c1 == IF msg.seq = 0 THEN update_types_server(c) ELSE c
  IN end_resource(c1, [op |-> "INFO", body |-> info])

\* core_marshal_done, core_marshal_error (lines 111-136).
core_marshal_other(c, op) == end_resource(c, [op |-> op, body |-> 0])

\* The core sends its info: at the bind of the core resource, the first
\* event of the connection, and at every later change.
CoreInfo ==
  /\ Len(conn.sent) + 2 <= MaxEvents
  /\ \E change_mask \in {1, 2} :
       conn' = core_marshal_info(conn, change_mask)
  /\ UNCHANGED <<protocol_vars, pod_vars, proxy_vars, device_vars, factory_vars>>

\* The core resource sends another event; the resource exists from the bind
\* on, which has sent the first info.
CoreEvent ==
  /\ Len(conn.sent) + 1 <= MaxEvents
  /\ conn.seq > 0
  /\ \E op \in {"DONE", "ERROR"} :
       conn' = core_marshal_other(conn, op)
  /\ UNCHANGED <<protocol_vars, pod_vars, proxy_vars, device_vars, factory_vars>>

NextInfo == CoreInfo \/ CoreEvent

SpecInfo == Init /\ [][NextInfo]_vars

(***************************************************************************)
(* C25                                                                     *)
(***************************************************************************)
Sent(op) == {i \in DOMAIN conn.sent : conn.sent[i].op = op}

MaxInfos == 2
MaxDepth == 4

\* device_info that registers at every info.
device_info_every(s) ==
  [s EXCEPT !.registers = @ + 1, !.implementations = @ + 1, !.registered = TRUE]

\* device_info: the handler of the info event of the client's object.
device_info(s) ==
  IF ~s.registered
  THEN [s EXCEPT !.registers = @ + 1, !.implementations = @ + 1, !.registered = TRUE]
  ELSE s

RECURSIVE pw_resource_destroy(_, _)
RECURSIVE pw_device_destroy(_, _)
RECURSIVE device_resource_destroy_keeps_hooks(_, _)
RECURSIVE device_resource_destroy(_, _)
RECURSIVE device_destroy(_, _)

\* pw_resource_destroy: the destroy event goes to the listeners of the
\* resource, then the resource is freed.  depth is the number of nested
\* destroy calls the cascade may still make.
pw_resource_destroy(s, depth) ==
  IF depth = 0
  THEN [s EXCEPT !.cut = TRUE]
  ELSE LET e == IF "resource_listener" \in s.hooks
                THEN device_resource_destroy(s, depth - 1)
                ELSE s
       IN [e EXCEPT !.resource = "destroyed"]

\* pw_device_destroy: the destroy event goes to the listeners of the device,
\* then the device is freed.
pw_device_destroy(s, depth) ==
  IF depth = 0
  THEN [s EXCEPT !.cut = TRUE]
  ELSE LET e == IF "device_listener" \in s.hooks
                THEN device_destroy(s, depth - 1)
                ELSE s
       IN [e EXCEPT !.device = "destroyed"]

\* device_resource_destroy without the three spa_hook_remove calls.
device_resource_destroy_keeps_hooks(s, depth) ==
  pw_device_destroy([s EXCEPT !.resource_ptr = FALSE,
                              !.runs.device_resource_destroy = @ + 1], depth)

\* device_resource_destroy: the handler of the resource's destroy event.
device_resource_destroy(s, depth) ==
  pw_device_destroy([s EXCEPT !.resource_ptr = FALSE,
                              !.hooks = @ \ Hooks,
                              !.runs.device_resource_destroy = @ + 1], depth)

\* device_destroy: the handler of the device's destroy event.
device_destroy(s, depth) ==
  pw_resource_destroy([s EXCEPT !.device_ptr = FALSE,
                                !.hooks = @ \ Hooks,
                                !.runs.device_destroy = @ + 1], depth)

\* pw_client_device_new on a new resource: NULL when the properties or the
\* device cannot be made, else the device with its impl filled in and the
\* three hooks attached.
pw_client_device_new(d, properties, props_ok, device_ok) ==
  IF properties = NULL /\ ~props_ok
  THEN [ret |-> NULL, impl |-> NoImpl]
  ELSE IF ~device_ok
  THEN [ret |-> NULL, impl |-> NoImpl]
  ELSE [ret |-> d,
        impl |-> [NoImpl EXCEPT !.made = TRUE, !.device = "alive", !.resource = "alive",
                                !.device_ptr = TRUE, !.resource_ptr = TRUE,
                                !.hooks = Hooks]]

\* The errno a failing allocation leaves.
ErrnoSample == {ENOMEM, EINVAL}

\* create_object whose error_device path leaves through error_exit.
create_object_leaks(d, resource_ok, properties, props_ok, device_ok, e) ==
  LET gone == pw_resource_destroy([NoImpl EXCEPT !.resource = "alive"], MaxDepth).resource
      n == pw_client_device_new(d, 1, TRUE, device_ok)
  IN IF ~resource_ok
     THEN [ret |-> NULL, errno |-> e, errors |-> <<-e>>, device_resource |-> "none",
           impl |-> NoImpl]
     ELSE IF properties = NULL /\ ~props_ok
     THEN [ret |-> NULL, errno |-> e, errors |-> <<-e>>, device_resource |-> gone,
           impl |-> NoImpl]
     ELSE IF n.ret = NULL
     THEN [ret |-> NULL, errno |-> e, errors |-> <<-e>>, device_resource |-> "alive",
           impl |-> NoImpl]
     ELSE [ret |-> n.ret, errno |-> 0, errors |-> <<>>, device_resource |-> "alive",
           impl |-> n.impl]

\* create_object (module-client-device.c lines 61-118): what it returns, errno
\* (0: not set), the errors sent to the requesting resource, the state of
\* device_resource and the client device made.  e is the errno the failing
\* call leaves.
create_object(d, resource_ok, properties, props_ok, device_ok, e) ==
  LET gone == pw_resource_destroy([NoImpl EXCEPT !.resource = "alive"], MaxDepth).resource
      n == pw_client_device_new(d, 1, TRUE, device_ok)
  IN IF ~resource_ok
     THEN [ret |-> NULL, errno |-> e, errors |-> <<-e>>, device_resource |-> "none",
           impl |-> NoImpl]
     ELSE IF properties = NULL /\ ~props_ok
     THEN [ret |-> NULL, errno |-> e, errors |-> <<-e>>, device_resource |-> gone,
           impl |-> NoImpl]
     ELSE IF n.ret = NULL
     THEN [ret |-> NULL, errno |-> e, errors |-> <<-e>>, device_resource |-> gone,
           impl |-> NoImpl]
     ELSE [ret |-> n.ret, errno |-> 0, errors |-> <<>>, device_resource |-> "alive",
           impl |-> n.impl]

\* A client asks the factory for a client device.
CreateObject ==
  /\ \E d \in Devices :
       /\ ~impl[d].made
       /\ \A x \in Devices : x < d => impl[x].made
       /\ \E resource_ok \in BOOLEAN, properties \in {NULL, 1}, props_ok \in BOOLEAN,
             device_ok \in BOOLEAN, e \in ErrnoSample :
            LET r == create_object(d, resource_ok, properties, props_ok, device_ok, e)
            IN /\ impl' = [impl EXCEPT ![d] = r.impl]
               /\ factory' = [op |-> "create_object", resource_ok |-> resource_ok,
                              properties |-> properties, props_ok |-> props_ok,
                              device_ok |-> device_ok, ret |-> r.ret, errno |-> r.errno,
                              errors |-> r.errors, device_resource |-> r.device_resource]
  /\ UNCHANGED <<protocol_vars, pod_vars, proxy_vars, info_vars>>

\* The client sends an info event on the resource.
DeviceInfo ==
  /\ \E d \in Devices :
       /\ impl[d].resource = "alive"
       /\ "object_listener" \in impl[d].hooks
       /\ impl[d].infos < MaxInfos
       /\ impl' = [impl EXCEPT ![d] = [device_info(impl[d]) EXCEPT !.infos = @ + 1]]
  /\ UNCHANGED <<factory, protocol_vars, pod_vars, proxy_vars, info_vars>>

\* The resource is destroyed (the client goes away or destroys its proxy).
ResourceDestroy ==
  /\ \E d \in Devices :
       /\ impl[d].resource = "alive"
       /\ impl' = [impl EXCEPT ![d] = pw_resource_destroy(impl[d], MaxDepth)]
  /\ UNCHANGED <<factory, protocol_vars, pod_vars, proxy_vars, info_vars>>

\* The device is destroyed (the core removes it).
DeviceDestroy ==
  /\ \E d \in Devices :
       /\ impl[d].device = "alive"
       /\ impl' = [impl EXCEPT ![d] = pw_device_destroy(impl[d], MaxDepth)]
  /\ UNCHANGED <<factory, protocol_vars, pod_vars, proxy_vars, info_vars>>

NextDevice == CreateObject \/ DeviceInfo \/ ResourceDestroy \/ DeviceDestroy

SpecDevice == Init /\ [][NextDevice]_vars

(***************************************************************************)
(* C28                                                                     *)
(***************************************************************************)
\* C28: a client device has been registered and given its implementation
\* exactly once as soon as it has handled one info event, however many
\* info events followed, and not at all before.
C28_RegisteredOnce ==
  \A d \in Devices :
    LET once == IF impl[d].infos > 0 THEN 1 ELSE 0
    IN /\ impl[d].registers = once
       /\ impl[d].implementations = once
       /\ impl[d].registered = (impl[d].infos > 0)

\* A device that has handled a second info event.
C28_Witness == \E d \in Devices : impl[d].infos = 2 /\ impl[d].registers = 1

(***************************************************************************)
(* C29                                                                     *)
(***************************************************************************)
\* C29: for a client device, once the resource or the device has been
\* destroyed both are destroyed, the cascade has ended, each of the two
\* destroy handlers has run at most once, and no hook is left attached.
C29_Cascade ==
  \A d \in Devices :
    /\ ~impl[d].cut
    /\ impl[d].runs.device_destroy <= 1
    /\ impl[d].runs.device_resource_destroy <= 1
    /\ (impl[d].resource = "destroyed") <=> (impl[d].device = "destroyed")
    /\ impl[d].resource = "destroyed" =>
         /\ impl[d].hooks = {}
         /\ impl[d].runs.device_destroy + impl[d].runs.device_resource_destroy = 1

\* One device was destroyed through its resource, another through the device.
C29_Witness ==
  /\ \E d \in Devices : impl[d].runs.device_resource_destroy = 1 /\ impl[d].device = "destroyed"
  /\ \E d \in Devices : impl[d].runs.device_destroy = 1 /\ impl[d].resource = "destroyed"

(***************************************************************************)
(* C30                                                                     *)
(***************************************************************************)
\* C30: when create_object fails (it returns NULL), one error has been sent
\* to the requesting resource with the error code, errno holds that code,
\* and the device resource has been destroyed if it had been created and
\* does not exist if it had not; when it succeeds no error is sent and the
\* device resource is alive.
C30_FailurePaths ==
  factory.op = "create_object" =>
    IF factory.ret = NULL
    THEN /\ factory.errno \in ErrnoSample
         /\ factory.errors = <<-factory.errno>>
         /\ factory.device_resource = (IF factory.resource_ok THEN "destroyed" ELSE "none")
    ELSE /\ factory.errors = <<>>
         /\ factory.device_resource = "alive"

\* The device could not be made after the resource was.
C30_Witness ==
  /\ factory.op = "create_object"
  /\ factory.ret = NULL
  /\ factory.resource_ok
  /\ ~factory.device_ok
  /\ factory.device_resource = "destroyed"
====
